---- MODULE Spec2Model ----
(***************************************************************************)
(* A model of the radixdlt-scrypto engine core: the liquid resource        *)
(* containers, the auth module's zone stack and call authorization, and    *)
(* the fee reserve with the transaction outcome (commit / failure /        *)
(* reject).  Each subsystem has its own variables and its own              *)
(* specification; a specification keeps the other subsystems parked.       *)
(*                                                                         *)
(* A Decimal is modelled by its integer number of 10^-18 subunits.         *)
(***************************************************************************)
EXTENDS Integers, Sequences, FiniteSets, TLC

VARIABLES
    \* ---- resource containers (blueprints/resource/resource.rs)
    kind,           \* "fungible" | "nonfungible" | "parked": the resource's type
    divisibility,   \* ResourceType::Fungible { divisibility }: decimal places allowed
    fungible,       \* Seq(Int): the amount of each live LiquidFungibleResource
    nonFungible,    \* Seq(SUBSET Ids): the ids of each live LiquidNonFungibleResource
    total0,         \* the total amount held when the sequence of operations began
    resLast,        \* the last container operation: its arguments and its result
    \* ---- auth module (system/kernel_modules/auth/auth_module.rs)
    auth_zone_stack,\* Seq(NodeId): AuthModule.auth_zone_stack
    auth_zones,     \* NodeId -> AuthZone substate of the live auth zone nodes
    frames,         \* Seq(Actor): the kernel's call frames above the root frame
    next_node_id,   \* the kernel's node id allocator
    auth_phase,     \* "new" | "running" | "done": before on_init, between, after on_teardown
    params,         \* AuthModule.params: [initial_proofs, virtual_resources]
    authLast,       \* the last before_push_frame: callee, rule, zones, result
    \* ---- fee reserve and transaction outcome
    store,          \* vault -> balance: the committed substate store
    store0,         \* the store before the transaction
    track,          \* vault -> balance: the transaction's working copy
    worktop,        \* XRD on the worktop
    bucket,         \* XRD in the bucket the manifest took from the worktop
    consumed,       \* FeeReserve.consumed (cost units)
    locked_fees,    \* Seq([vault, amount, contingent]) in locking order
    cost_unit_price,\* subunits per cost unit
    tip_percentage,
    transferred,    \* vault -> net amount withdrawn by the manifest's transfers
    receipt,        \* [kind |-> "none" | "Reject" | "CommitSuccess" | "CommitFailure", error]
    feeLast,        \* the last fee reserve call: its arguments and its result
    \* ---- a vault and its freeze flags
    vault_liquid,   \* the vault's LiquidFungibleResource amount
    vault_frozen,   \* VaultFrozenFlag.frozen: the set of frozen operations
    vault_was_frozen, \* whether freeze was ever called on the vault
    vaultLast,      \* the last vault operation: its arguments and its result
    \* ---- substate locks of the kernel
    locked_handles, \* the locks held: a set of [handle, frame, field, mutable]
    next_handle,    \* the next LockHandle the kernel hands out
    lock_depth,     \* the number of call frames; the top one is running
    fields,         \* field -> the data last written to the actor's field
    lockLast,       \* the last lock call: its arguments, the locks held before, its result
    \* ---- the in-memory substate database
    substates,      \* BTreeMap: physical key -> encoded value
    last_update,    \* substate id -> the update committed last for it
    db_before,      \* the map when the running (or last) commit was called
    db_updates,     \* the updates of the running (or last) commit
    db_pending,     \* the updates the running commit has not applied yet
    db_pc,          \* "idle", or "commit" while commit holds the database
    db_count,       \* the number of updates passed to commit so far
    db_seen,        \* what the last reader of the database saw
    \* ---- functions without state
    callLast,       \* the last call of such a function: its arguments and its result
    \* ---- events of one transaction
    event_store,    \* the events the events module holds, in the order it got them
    emit_log,       \* history: the emissions that returned Ok, in call order
    event_error,    \* the error that failed the transaction, NoError while it runs
    event_receipt,  \* the receipt of the transaction, NoReceipt until it ends
    eventLast,      \* the last emission: its arguments and its result
    \* ---- the track's view of the vaults during one transaction
    tracked,        \* the transaction: what it did to each vault's substate so far,
                    \* whether the loan is repaid, its error, its receipt
    trackLast,      \* the last call on a vault: its arguments and its result
    \* ---- a resource definition
    resource_def,   \* ResourceDef: resource_type, flags, mutable_flags, total_supply
    created_supply, \* history: total_supply when the ResourceDef was created
    minted,         \* history: the sum of the minted quantities
    burned,         \* history: the sum of the burned quantities
    rdefLast,       \* the last call on the ResourceDef: arguments, result, state before
    \* ---- substate locks taken while an authorization is resolved
    held_locks,     \* the lock handles held
    resolveLast,    \* the last resolution: callee, result, locks held before
    \* ---- buffers of a ScryptoRuntime
    buffers,        \* BTreeMap: buffer id -> bytes
    next_buffer_id, \* the id the next buffer gets
    allocated,      \* history: Seq([id, bytes, consumed]) of all allocations
    bufLast,        \* the last buffer call: its arguments, its result, buffers before
    \* ---- a typed traverser
    traverser,      \* the state of the traverser
    travLast        \* the last event it yielded, with the state before

resVars  == <<kind, divisibility, fungible, nonFungible, total0, resLast>>
authVars == <<auth_zone_stack, auth_zones, frames, next_node_id, auth_phase, params, authLast>>
feeVars  == <<store, store0, track, worktop, bucket, consumed, locked_fees, cost_unit_price,
              tip_percentage, transferred, receipt, feeLast>>
vaultVars == <<vault_liquid, vault_frozen, vault_was_frozen, vaultLast>>
lockVars == <<locked_handles, next_handle, lock_depth, fields, lockLast>>
dbVars   == <<substates, last_update, db_before, db_updates, db_pending, db_pc,
              db_count, db_seen>>
pureVars == <<callLast>>
eventVars == <<event_store, emit_log, event_error, event_receipt, eventLast>>
trackVars == <<tracked, trackLast>>
rdefVars == <<resource_def, created_supply, minted, burned, rdefLast>>
resolveVars == <<held_locks, resolveLast>>
bufVars  == <<buffers, next_buffer_id, allocated, bufLast>>
travVars == <<traverser, travLast>>
lateVars == <<trackVars, rdefVars, resolveVars, bufVars, travVars>>
baseVars == <<resVars, authVars, feeVars, vaultVars, lockVars, dbVars, pureVars, eventVars>>
extVars  == <<vaultVars, lockVars, dbVars, pureVars, eventVars, lateVars>>
vars     == <<resVars, authVars, feeVars, extVars>>

(***************************************************************************)
(* Bounds of the model.                                                    *)
(***************************************************************************)
MaxContainers == 3
MaxAmount == 3
MaxId == 3

Ids == 1..MaxId
\* The divisibilities of the fungible resources of the model (18 is the most a
\* resource may declare; one subunit is 10^-18).
Divisibilities == {17, 18}
\* Decimal arguments the callers may pass: negative ones and ones above any balance.
Amounts == (0 - 2)..(MaxAmount + 1)
\* The amounts a container of the model may hold (Decimal arithmetic beyond its
\* range panics; the model's range is the bound).
InRange(a) == a >= 0 - (2 * MaxAmount) /\ a <= 2 * MaxAmount

RECURSIVE SumSeq(_)
SumSeq(s) == IF s = <<>> THEN 0 ELSE Head(s) + SumSeq(Tail(s))

RemoveAt(s, i) == [k \in 1..(Len(s) - 1) |-> IF k < i THEN s[k] ELSE s[k + 1]]

Min(S) == CHOOSE x \in S : \A y \in S : x <= y

NoOp == [op |-> "none"]

(***************************************************************************)
(* LiquidFungibleResource                                                  *)
(***************************************************************************)
\* put: self.amount += other.amount()
LiquidFungibleResource_put(amount, other) == amount + other

\* The balance check written with <= instead of <.
take_by_amount_le(amount, amount_to_take) ==
    IF amount <= amount_to_take
    THEN [result |-> "InsufficientBalance", self |-> amount, taken |-> 0]
    ELSE [result |-> "Ok", self |-> amount - amount_to_take, taken |-> amount_to_take]

\* take_by_amount: Err(InsufficientBalance) if self.amount < amount_to_take;
\* else self.amount -= amount_to_take and a new container of amount_to_take.
LiquidFungibleResource_take_by_amount(amount, amount_to_take) ==
    IF amount < amount_to_take
    THEN [result |-> "InsufficientBalance", self |-> amount, taken |-> 0]
    ELSE [result |-> "Ok", self |-> amount - amount_to_take, taken |-> amount_to_take]

\* take_all asks for one subunit less than the container holds.
take_all_but_one(amount) ==
    LiquidFungibleResource_take_by_amount(amount, amount - 1)

\* take_all: self.take_by_amount(self.amount()).expect(..)
LiquidFungibleResource_take_all(amount) ==
    LiquidFungibleResource_take_by_amount(amount, amount)

\* The remainder of i128 `%`: it has the sign of the dividend.
Rem(a, m) == IF a >= 0 THEN a % m ELSE 0 - ((0 - a) % m)

\* 10i128.pow(18 - divisibility)
RECURSIVE Pow10(_)
Pow10(n) == IF n = 0 THEN 1 ELSE 10 * Pow10(n - 1)

\* ResourceDef::check_amount: InvalidAmount if the amount is not negative and
\* amount.0 % 10^(18 - divisibility) != 0.
check_amount(amount, div) ==
    IF ~(amount < 0) /\ Rem(amount, Pow10(18 - div)) # 0
    THEN "InvalidAmount"
    ELSE "Ok"

\* A take of a fungible amount: the resource's check_amount, reported as
\* InvalidTakeAmount, then the container's take_by_amount.
take(amount, amount_to_take, div) ==
    IF check_amount(amount_to_take, div) # "Ok"
    THEN [result |-> "InvalidTakeAmount", self |-> amount, taken |-> 0]
    ELSE LiquidFungibleResource_take_by_amount(amount, amount_to_take)

(***************************************************************************)
(* LiquidNonFungibleResource                                               *)
(***************************************************************************)
\* put: self.ids.extend(other.ids)
LiquidNonFungibleResource_put(ids, other) == ids \cup other

\* take_by_ids: for id in ids_to_take (ascending, a BTreeSet):
\*   if !self.ids.remove(&id) { return Err(InsufficientBalance) }
\* The ids removed before the absent one stay removed.
RECURSIVE LiquidNonFungibleResource_take_by_ids_loop(_, _, _)
LiquidNonFungibleResource_take_by_ids_loop(ids, todo, all) ==
    IF todo = {}
    THEN [result |-> "Ok", self |-> ids, taken |-> all]
    ELSE LET id == Min(todo) IN
         IF id \notin ids
         THEN [result |-> "InsufficientBalance", self |-> ids, taken |-> {}]
         ELSE LiquidNonFungibleResource_take_by_ids_loop(ids \ {id}, todo \ {id}, all)

LiquidNonFungibleResource_take_by_ids(ids, ids_to_take) ==
    LiquidNonFungibleResource_take_by_ids_loop(ids, ids_to_take, ids_to_take)

\* self.ids.iter().take(n): the n smallest ids
RECURSIVE FirstN(_, _)
FirstN(ids, n) ==
    IF n = 0 \/ ids = {} THEN {}
    ELSE LET id == Min(ids) IN {id} \cup FirstN(ids \ {id}, n - 1)

\* The length check written with <= instead of <.
non_fungible_take_by_amount_le(ids, n) ==
    IF Cardinality(ids) <= n
    THEN [result |-> "InsufficientBalance", self |-> ids, taken |-> {}]
    ELSE LiquidNonFungibleResource_take_by_ids(ids, FirstN(ids, n))

\* take_by_amount: Err(InsufficientBalance) if self.ids.len() < n; else
\* take_by_ids of the first n ids.
LiquidNonFungibleResource_take_by_amount(ids, n) ==
    IF Cardinality(ids) < n
    THEN [result |-> "InsufficientBalance", self |-> ids, taken |-> {}]
    ELSE LiquidNonFungibleResource_take_by_ids(ids, FirstN(ids, n))

\* take_all: core::mem::replace(&mut self.ids, btreeset!())
LiquidNonFungibleResource_take_all(ids) ==
    [result |-> "Ok", self |-> {}, taken |-> ids]

\* LiquidNonFungibleResource::amount: self.ids.len().into()
RECURSIVE SumCard(_)
SumCard(s) == IF s = <<>> THEN 0 ELSE Cardinality(Head(s)) + SumCard(Tail(s))

(***************************************************************************)
(* Operations on the containers of one resource.  A take appends the       *)
(* container it returns; a put consumes the container it is given.         *)
(***************************************************************************)
FungiblePut ==
    /\ kind = "fungible"
    /\ \E i \in 1..Len(fungible), j \in 1..Len(fungible) :
        /\ i # j
        /\ LET new == LiquidFungibleResource_put(fungible[i], fungible[j]) IN
           /\ InRange(new)
           /\ fungible' = RemoveAt([fungible EXCEPT ![i] = new], j)
           /\ resLast' = [op |-> "put", container |-> IF j < i THEN i - 1 ELSE i,
                          before |-> fungible[i], arg |-> fungible[j],
                          result |-> "Ok", self |-> new, taken |-> 0]
    /\ UNCHANGED <<kind, divisibility, nonFungible, total0, authVars, feeVars, extVars>>

FungibleTake(i, r, name, arg) ==
    /\ InRange(r.self)
    /\ resLast' = [op |-> name, container |-> i, before |-> fungible[i], arg |-> arg,
                   result |-> r.result, self |-> r.self, taken |-> r.taken]
    /\ fungible' = IF r.result = "Ok"
                   THEN Append([fungible EXCEPT ![i] = r.self], r.taken)
                   ELSE [fungible EXCEPT ![i] = r.self]

FungibleTakeByAmount ==
    /\ kind = "fungible"
    /\ Len(fungible) < MaxContainers
    /\ \E i \in 1..Len(fungible), a \in Amounts :
        FungibleTake(i, LiquidFungibleResource_take_by_amount(fungible[i], a),
                     "take_by_amount", a)
    /\ UNCHANGED <<kind, divisibility, nonFungible, total0, authVars, feeVars, extVars>>

\* A take that goes through the resource's amount check.
FungibleTakeChecked ==
    /\ kind = "fungible"
    /\ Len(fungible) < MaxContainers
    /\ \E i \in 1..Len(fungible), a \in Amounts :
        FungibleTake(i, take(fungible[i], a, divisibility), "take", a)
    /\ UNCHANGED <<kind, divisibility, nonFungible, total0, authVars, feeVars, extVars>>

FungibleTakeAll ==
    /\ kind = "fungible"
    /\ Len(fungible) < MaxContainers
    /\ \E i \in 1..Len(fungible) :
        FungibleTake(i, LiquidFungibleResource_take_all(fungible[i]),
                     "take_all", fungible[i])
    /\ UNCHANGED <<kind, divisibility, nonFungible, total0, authVars, feeVars, extVars>>

NonFungiblePut ==
    /\ kind = "nonfungible"
    /\ \E i \in 1..Len(nonFungible), j \in 1..Len(nonFungible) :
        /\ i # j
        /\ LET new == LiquidNonFungibleResource_put(nonFungible[i], nonFungible[j]) IN
           /\ nonFungible' = RemoveAt([nonFungible EXCEPT ![i] = new], j)
           /\ resLast' = [op |-> "put", container |-> IF j < i THEN i - 1 ELSE i,
                          before |-> nonFungible[i], arg |-> nonFungible[j],
                          result |-> "Ok", self |-> new, taken |-> {}]
    /\ UNCHANGED <<kind, divisibility, fungible, total0, authVars, feeVars, extVars>>

NonFungibleTake(i, r, name, arg) ==
    /\ resLast' = [op |-> name, container |-> i, before |-> nonFungible[i], arg |-> arg,
                   result |-> r.result, self |-> r.self, taken |-> r.taken]
    /\ nonFungible' = IF r.result = "Ok"
                      THEN Append([nonFungible EXCEPT ![i] = r.self], r.taken)
                      ELSE [nonFungible EXCEPT ![i] = r.self]

NonFungibleTakeByAmount ==
    /\ kind = "nonfungible"
    /\ Len(nonFungible) < MaxContainers
    /\ \E i \in 1..Len(nonFungible), n \in 0..(MaxId + 1) :
        NonFungibleTake(i, LiquidNonFungibleResource_take_by_amount(nonFungible[i], n),
                        "take_by_amount", n)
    /\ UNCHANGED <<kind, divisibility, fungible, total0, authVars, feeVars, extVars>>

NonFungibleTakeByIds ==
    /\ kind = "nonfungible"
    /\ Len(nonFungible) < MaxContainers
    /\ \E i \in 1..Len(nonFungible), S \in SUBSET Ids :
        NonFungibleTake(i, LiquidNonFungibleResource_take_by_ids(nonFungible[i], S),
                        "take_by_ids", S)
    /\ UNCHANGED <<kind, divisibility, fungible, total0, authVars, feeVars, extVars>>

NonFungibleTakeAll ==
    /\ kind = "nonfungible"
    /\ Len(nonFungible) < MaxContainers
    /\ \E i \in 1..Len(nonFungible) :
        NonFungibleTake(i, LiquidNonFungibleResource_take_all(nonFungible[i]),
                        "take_all", nonFungible[i])
    /\ UNCHANGED <<kind, divisibility, fungible, total0, authVars, feeVars, extVars>>

NextResource ==
    \/ FungiblePut
    \/ FungibleTakeByAmount
    \/ FungibleTakeChecked
    \/ FungibleTakeAll
    \/ NonFungiblePut
    \/ NonFungibleTakeByAmount
    \/ NonFungibleTakeByIds
    \/ NonFungibleTakeAll

(***************************************************************************)
(* Auth module                                                             *)
(***************************************************************************)
MaxDepth == 3
MaxNodes == 4

\* NonFungibleLocalId::Bytes(scrypto_encode(value)): the encoded type and the
\* package address in it.
NoLocalId == [encoded |-> "none", package_address |-> "none"]
Badge(name) == [resource |-> name, id |-> NoLocalId]
Badges == {Badge("badge1"), Badge("badge2")}
Packages == {"TRANSACTION_PROCESSOR_PACKAGE", "package1"}
Blueprints == {"TRANSACTION_PROCESSOR_BLUEPRINT", "blueprint1"}
\* NonFungibleGlobalId::new(PACKAGE_TOKEN, NonFungibleLocalId::bytes(encode(package)))
PackageToken(package_address) ==
    [resource |-> "PACKAGE_TOKEN",
     id |-> [encoded |-> "PackageAddress", package_address |-> package_address]]
\* Runtime::package_token: NonFungibleGlobalId::new(PACKAGE_TOKEN,
\* NonFungibleLocalId::Bytes(scrypto_encode(&PackageIdentifier::Scrypto(package))))
Runtime_package_token(package_address) ==
    [resource |-> "PACKAGE_TOKEN",
     id |-> [encoded |-> "PackageIdentifier::Scrypto",
             package_address |-> package_address]]
\* The resources the rules of the model require: the badges, and the package
\* token of package1 as the engine and as Runtime::package_token build it.
AuthResources ==
    Badges \cup {PackageToken("package1"), Runtime_package_token("package1")}

\* MethodAuthorization, as far as the rules of the model go
AllowAll == [type |-> "AllowAll", r |-> Badge("none")]
DenyAll == [type |-> "DenyAll", r |-> Badge("none")]
Require(r) == [type |-> "Require", r |-> r]
Authorizations == {AllowAll, DenyAll} \cup {Require(r) : r \in AuthResources}

\* Actor: the identifier (a method with its receiver's node kind, a function, a
\* virtual lazy load) and the fn_identifier's package and blueprint.
Actor(identifier, receiver, package_address, blueprint_name) ==
    [identifier |-> identifier, receiver |-> receiver,
     package_address |-> package_address, blueprint_name |-> blueprint_name]
Actors ==
    {Actor("Function", "none", "TRANSACTION_PROCESSOR_PACKAGE", "TRANSACTION_PROCESSOR_BLUEPRINT"),
     Actor("Function", "none", "TRANSACTION_PROCESSOR_PACKAGE", "blueprint1"),
     Actor("Function", "none", "package1", "blueprint1"),
     Actor("Method", "GlobalObject", "package1", "blueprint1"),
     Actor("Method", "Object", "package1", "blueprint1"),
     Actor("VirtualLazyLoad", "none", "package1", "blueprint1")}
None == [identifier |-> "None", receiver |-> "none",
         package_address |-> "none", blueprint_name |-> "none"]

\* is_actor_barrier: ActorIdentifier::Method(MethodIdentifier(NodeId::GlobalObject(..), ..))
is_actor_barrier(actor) ==
    actor.identifier = "Method" /\ actor.receiver = "GlobalObject"

\* is_barrier: Some(actor) => is_actor_barrier(actor), None => false
is_barrier(actor) == IF actor = None THEN FALSE ELSE is_actor_barrier(actor)

\* The blueprint name is not compared.
is_transaction_processor_package_only(actor) ==
    IF actor = None THEN FALSE
    ELSE actor.package_address = "TRANSACTION_PROCESSOR_PACKAGE"

is_transaction_processor(actor) ==
    IF actor = None THEN FALSE
    ELSE /\ actor.package_address = "TRANSACTION_PROCESSOR_PACKAGE"
         /\ actor.blueprint_name = "TRANSACTION_PROCESSOR_BLUEPRINT"

\* The proofs and virtual proofs an auth zone presents.
ZoneProofs(zone) ==
    {proof.resource : proof \in zone.proofs}
        \cup zone.virtual_resources \cup zone.virtual_non_fungibles
        \cup zone.virtual_non_fungibles_non_extending

\* Authentication::verify_method_auth walks the zones from the tip along the
\* parent links; leaving a barrier zone uses up one allowed crossing.
RECURSIVE auth_zone_stack_matches(_, _, _, _)
auth_zone_stack_matches(zones, remaining, zone_id, r) ==
    LET zone == zones[zone_id] IN
    IF r \in ZoneProofs(zone) THEN TRUE
    ELSE IF zone.is_barrier /\ remaining = 0 THEN FALSE
    ELSE IF zone.parent = 0 THEN FALSE
    ELSE auth_zone_stack_matches(zones,
                                 IF zone.is_barrier THEN remaining - 1 ELSE remaining,
                                 zone.parent, r)

verify_method_auth(zones, barrier_crossings_allowed, auth_zone_id, authorization) ==
    CASE authorization.type = "AllowAll" -> TRUE
      [] authorization.type = "DenyAll" -> FALSE
      [] OTHER -> auth_zone_stack_matches(zones, barrier_crossings_allowed,
                                          auth_zone_id, authorization.r)

\* last_auth_zone: self.auth_zone_stack.last()
last_auth_zone(stack) == stack[Len(stack)]

\* The two barrier allowances the wrong way round.
before_push_frame_barrier_swapped(zones, stack, callee, authorization) ==
    IF callee.identifier = "VirtualLazyLoad" THEN "Ok"
    ELSE IF verify_method_auth(zones, IF is_barrier(callee) THEN 1 ELSE 0,
                               last_auth_zone(stack), authorization)
         THEN "Ok" ELSE "Unauthorized"

\* A VirtualLazyLoad callee is verified like every other callee.
before_push_frame_lazy_load_verified(zones, stack, callee, authorization) ==
    IF verify_method_auth(zones, IF is_barrier(callee) THEN 0 ELSE 1,
                          last_auth_zone(stack), authorization)
    THEN "Ok" ELSE "Unauthorized"

\* before_push_frame: `authorization` is what method_auth / function_auth
\* resolved for the callee from the access rules substates.
before_push_frame(zones, stack, callee, authorization) ==
    IF callee.identifier = "VirtualLazyLoad" THEN "Ok"
    ELSE LET barrier_crossings_allowed == IF is_barrier(callee) THEN 0 ELSE 1
             auth_zone_id == last_auth_zone(stack)
         IN  IF ~verify_method_auth(zones, barrier_crossings_allowed, auth_zone_id,
                                    authorization)
             THEN "Unauthorized"
             ELSE "Ok"

\* The error names the callee but not the rule that was required.
Unauthorized_without_rule(callee, authorization) ==
    [kind |-> "Unauthorized", identifier |-> callee.identifier,
     receiver |-> callee.receiver, authorization |-> AllowAll]

\* AuthError::Unauthorized(Unauthorized(Some(callee.identifier), authorization))
Unauthorized(callee, authorization) ==
    [kind |-> "Unauthorized", identifier |-> callee.identifier,
     receiver |-> callee.receiver, authorization |-> authorization]

NoError == [kind |-> "none"]

\* on_execution_start: the zone created for `actor` (the current actor).
new_auth_zone(actor, stack, auth_params) ==
    [proofs |-> {},
     virtual_resources |->
        IF is_transaction_processor(actor) THEN auth_params.virtual_resources ELSE {},
     virtual_non_fungibles |->
        IF is_transaction_processor(actor) THEN auth_params.initial_proofs ELSE {},
     virtual_non_fungibles_non_extending |->
        IF actor = None THEN {} ELSE {PackageToken(actor.package_address)},
     is_barrier |-> is_barrier(actor),
     parent |-> IF stack = <<>> THEN 0 ELSE last_auth_zone(stack)]

NoZone == [proofs |-> {}, virtual_resources |-> {}, virtual_non_fungibles |-> {},
           virtual_non_fungibles_non_extending |-> {}, is_barrier |-> FALSE,
           parent |-> 0]

on_execution_start(actor) ==
    /\ auth_zones' = [auth_zones EXCEPT ![next_node_id] =
                        new_auth_zone(actor, auth_zone_stack, params)]
    /\ auth_zone_stack' = Append(auth_zone_stack, next_node_id)
    /\ next_node_id' = next_node_id + 1

\* The zone at the bottom of the stack is removed instead of the one on top.
on_execution_finish_pops_bottom ==
    /\ auth_zone_stack # <<>>
    /\ auth_zones' = [auth_zones EXCEPT ![auth_zone_stack[1]] = NoZone]
    /\ auth_zone_stack' = Tail(auth_zone_stack)

\* The zone is popped but its node, with the proofs it holds, is kept.
on_execution_finish_keeps_node ==
    /\ auth_zone_stack # <<>>
    /\ auth_zones' = auth_zones
    /\ auth_zone_stack' = SubSeq(auth_zone_stack, 1, Len(auth_zone_stack) - 1)

\* on_execution_finish: pop the zone and drop its node.
on_execution_finish ==
    /\ auth_zone_stack # <<>>
    /\ auth_zones' = [auth_zones EXCEPT ![last_auth_zone(auth_zone_stack)] = NoZone]
    /\ auth_zone_stack' = SubSeq(auth_zone_stack, 1, Len(auth_zone_stack) - 1)

\* KernelModule::on_init: create the sentinel zone
OnInit ==
    /\ auth_phase = "new"
    /\ on_execution_start(None)
    /\ auth_phase' = "running"
    /\ UNCHANGED <<frames, params, authLast, resVars, feeVars, extVars>>

\* The kernel's invoke: before_push_frame, and when it passes, the callee's frame
\* is pushed and on_execution_start runs with the callee as the current actor.
InvokeOf(callees, authorizations) ==
    /\ auth_phase = "running"
    /\ Len(frames) < MaxDepth
    /\ next_node_id <= MaxNodes
    /\ \E callee \in callees, authorization \in authorizations :
        LET result == before_push_frame(auth_zones, auth_zone_stack, callee, authorization) IN
        /\ authLast' = [op |-> "before_push_frame", callee |-> callee,
                        authorization |-> authorization, result |-> result,
                        error |-> IF result = "Unauthorized"
                                  THEN Unauthorized(callee, authorization)
                                  ELSE NoError,
                        depth |-> Len(frames), before |-> auth_zone_stack,
                        frames_before |-> frames]
        /\ IF result = "Ok"
           THEN /\ frames' = Append(frames, callee)
                /\ on_execution_start(callee)
           ELSE UNCHANGED <<frames, auth_zones, auth_zone_stack, next_node_id>>
    /\ UNCHANGED <<auth_phase, params, resVars, feeVars, extVars>>

Invoke == InvokeOf(Actors, Authorizations)

\* The calls of a transaction whose rules all pass: the transaction processor and
\* a function and a method of package1.
PlainActors ==
    {Actor("Function", "none", "TRANSACTION_PROCESSOR_PACKAGE", "TRANSACTION_PROCESSOR_BLUEPRINT"),
     Actor("Method", "GlobalObject", "package1", "blueprint1")}
InvokePlain == InvokeOf(PlainActors, {AllowAll})

\* The callee returns: on_execution_finish, and its frame is popped.
Return ==
    /\ auth_phase = "running"
    /\ frames # <<>>
    /\ on_execution_finish
    /\ frames' = SubSeq(frames, 1, Len(frames) - 1)
    /\ authLast' = [op |-> "on_execution_finish", before |-> auth_zone_stack,
                    frames_before |-> frames,
                    held |-> auth_zones[last_auth_zone(auth_zone_stack)].proofs]
    /\ UNCHANGED <<next_node_id, auth_phase, params, resVars, feeVars, extVars>>

\* A proof node: the resource it proves and the zone of the frame that created it.
Proof(resource, origin) == [resource |-> resource, origin |-> origin]

\* The running frame creates a proof and pushes it onto its auth zone.
PushProofOf(resources) ==
    /\ auth_phase = "running"
    /\ frames # <<>>
    /\ \E r \in resources :
        LET zone_id == last_auth_zone(auth_zone_stack) IN
        /\ \A other \in 1..MaxNodes : Proof(r, zone_id) \notin auth_zones[other].proofs
        /\ auth_zones' = [auth_zones EXCEPT ![zone_id].proofs = @ \cup {Proof(r, zone_id)}]
    /\ authLast' = [op |-> "push"]
    /\ UNCHANGED <<auth_zone_stack, frames, next_node_id, auth_phase, params,
                   resVars, feeVars, extVars>>

PushProof == PushProofOf({Badge("badge1")})
PushAnyProof == PushProofOf(Badges)

\* The running frame pops a proof from its auth zone and hands it to its caller,
\* which puts it on its own auth zone (the worktop's, for the transaction
\* processor).
MoveProofToParent ==
    /\ auth_phase = "running"
    /\ Len(frames) >= 2
    /\ LET zone_id == last_auth_zone(auth_zone_stack)
           parent == auth_zones[zone_id].parent
       IN  \E proof \in auth_zones[zone_id].proofs :
              /\ auth_zones' = [auth_zones EXCEPT
                                  ![zone_id].proofs = @ \ {proof},
                                  ![parent].proofs = @ \cup {proof}]
              /\ authLast' = [op |-> "move_proof", proof |-> proof, to |-> parent]
    /\ UNCHANGED <<auth_zone_stack, frames, next_node_id, auth_phase, params,
                   resVars, feeVars, extVars>>

\* KernelModule::on_teardown: destroy the sentinel zone
OnTeardown ==
    /\ auth_phase = "running"
    /\ frames = <<>>
    /\ on_execution_finish
    /\ auth_phase' = "done"
    /\ authLast' = [op |-> "on_teardown", before |-> auth_zone_stack,
                    frames_before |-> frames,
                    held |-> auth_zones[last_auth_zone(auth_zone_stack)].proofs]
    /\ UNCHANGED <<frames, next_node_id, params, resVars, feeVars, extVars>>

NextAuth ==
    \/ OnInit
    \/ Invoke
    \/ Return
    \/ PushProof
    \/ OnTeardown

\* A transaction whose calls all pass, with the proofs its frames create and
\* hand to their callers.
NextProof ==
    \/ OnInit
    \/ InvokePlain
    \/ Return
    \/ PushAnyProof
    \/ MoveProofToParent
    \/ OnTeardown


(***************************************************************************)
(* Fee reserve, and the outcome of one transaction                         *)
(***************************************************************************)
MaxBalance == 6
MaxUnits == 2
MaxLocks == 2

\* The reserve's configuration, in cost units.
system_loan == 2
cost_unit_limit == 4

Vaults == {"account1", "account2", "empty", "doge"}
XrdVaults == {"account1", "account2", "empty"}
Accounts == {"account1", "account2"}
\* <<cost_unit_price, tip_percentage>>
PriceAndTip == {<<1, 0>>, <<2, 0>>, <<2, 50>>}
\* What one manifest instruction costs by itself, in cost units.
InstructionCost == {1}
\* Too little for the loan, a part of a balance, a whole balance, too much.
LockAmounts == {1, (MaxBalance \div 2) + 1, MaxBalance, MaxBalance + 1}
TransferAmounts == 1..2

Min2(a, b) == IF a <= b THEN a ELSE b

NoReceipt == [kind |-> "none", error |-> "none"]

\* The tip is left out of the price.
effective_price_no_tip(price, tip) == price

\* effective_price = cost_unit_price + cost_unit_price * tip_percentage / 100
effective_price(price, tip) == price + ((price * tip) \div 100)

\* (amount / effective_price).round(0, RoundingMode::TowardsZero)
units_of(amount, price, tip) == amount \div effective_price(price, tip)

RECURSIVE non_contingent_units(_, _, _)
non_contingent_units(locks, price, tip) ==
    IF locks = <<>> THEN 0
    ELSE (IF Head(locks).contingent THEN 0
          ELSE units_of(Head(locks).amount, price, tip))
         + non_contingent_units(Tail(locks), price, tip)

\* The loan is repaid once the locked non-contingent fees cover it.
loan_repaid(locks, price, tip) ==
    non_contingent_units(locks, price, tip) >= system_loan

\* FeeReserve consume: OutOfCost if consumed + units > cost_unit_limit
fee_reserve_consume(used, units) ==
    IF used + units > cost_unit_limit
    THEN [result |-> "OutOfCost", consumed |-> used]
    ELSE [result |-> "Ok", consumed |-> used + units]

\* The reserve's error is dropped instead of being mapped into the result.
consume_cost_units_error_dropped(used, n) ==
    [result |-> "Ok", consumed |-> fee_reserve_consume(used, n).consumed]

\* ScryptoRuntime::consume_cost_units / NopWasmRuntime::consume_cost_units:
\* the reserve's consume with reason RunWasm, its error mapped through.
consume_cost_units(used, n) == fee_reserve_consume(used, n)

\* The cost units the reserve can hand out: the loan until it is repaid, then
\* what the non-contingent locks bought.
available_units(locks, price, tip) ==
    IF loan_repaid(locks, price, tip)
    THEN non_contingent_units(locks, price, tip)
    ELSE system_loan

\* One metered step: the limit first, then the reserve's balance.
charge(used, units, locks, price, tip) ==
    LET r == consume_cost_units(used, units) IN
    IF r.result # "Ok" THEN r
    ELSE IF r.consumed > available_units(locks, price, tip)
         THEN [result |-> IF loan_repaid(locks, price, tip)
                          THEN "InsufficientBalance" ELSE "LoanRepaymentFailed",
               consumed |-> used]
         ELSE r

\* lock_fee: the vault must hold XRD and at least `amount`; the whole cost units
\* the amount buys are debited now and recorded with the vault.
lock_fee(balances, locks, vault, amount, contingent, price, tip) ==
    IF vault \notin XrdVaults THEN [result |-> "LockFeeNotRadixToken"]
    ELSE IF balances[vault] < amount THEN [result |-> "LockFeeInsufficientBalance"]
    ELSE LET actual == units_of(amount, price, tip) * effective_price(price, tip) IN
         [result |-> "Ok",
          track |-> [balances EXCEPT ![vault] = @ - actual],
          locked_fees |-> Append(locks, [vault |-> vault, amount |-> actual,
                                         contingent |-> contingent])]

\* The non-contingent entries pay in the order they were locked, the contingent
\* ones never.
RECURSIVE payments_insertion_order(_, _, _)
payments_insertion_order(locks, required, is_success) ==
    IF locks = <<>> THEN <<>>
    ELSE LET l == Head(locks)
             amount == IF l.contingent THEN 0 ELSE Min2(l.amount, required)
         IN  <<amount>> \o payments_insertion_order(Tail(locks), required - amount, is_success)

\* A contingent entry pays whatever the outcome.
RECURSIVE payments_contingent_always(_, _, _)
payments_contingent_always(locks, required, is_success) ==
    IF locks = <<>> THEN <<>>
    ELSE LET l == locks[Len(locks)]
             amount == Min2(l.amount, required)
         IN  Append(payments_contingent_always(SubSeq(locks, 1, Len(locks) - 1),
                                               required - amount, is_success), amount)

\* finalize: the payments, one per locked entry (in the entries' order).  The
\* entries are drawn on from the last locked to the first, each up to what is
\* still required; a contingent entry only when the transaction succeeded.
RECURSIVE payments(_, _, _)
payments(locks, required, is_success) ==
    IF locks = <<>> THEN <<>>
    ELSE LET l == locks[Len(locks)]
             amount == IF l.contingent
                       THEN (IF is_success THEN Min2(l.amount, required) ELSE 0)
                       ELSE Min2(l.amount, required)
         IN  Append(payments(SubSeq(locks, 1, Len(locks) - 1), required - amount, is_success),
                    amount)

RECURSIVE sum_for_vault(_, _, _)
sum_for_vault(locks, amounts, vault) ==
    IF locks = <<>> THEN 0
    ELSE (IF Head(locks).vault = vault THEN Head(amounts) ELSE 0)
         + sum_for_vault(Tail(locks), Tail(amounts), vault)

locked_amounts(locks) == [i \in 1..Len(locks) |-> locks[i].amount]

\* What a vault is charged: the payments drawn from its locked entries.
fee_paid(locks, used, price, tip, is_success, vault) ==
    sum_for_vault(locks, payments(locks, effective_price(price, tip) * used, is_success),
                  vault)

\* The working copy is written out on failure as well.
commit_keeps_writes(outcome, before, balances, locks, used, price, tip) ==
    [v \in Vaults |->
        balances[v] + sum_for_vault(locks, locked_amounts(locks), v)
            - fee_paid(locks, used, price, tip, outcome = "CommitSuccess", v)]

\* The working copy, fee locks debited, is written out even on Reject.
commit_reject_keeps_track(outcome, before, balances, locks, used, price, tip) ==
    IF outcome = "Reject" THEN balances
    ELSE [v \in Vaults |->
            (IF outcome = "CommitSuccess"
             THEN balances[v] + sum_for_vault(locks, locked_amounts(locks), v)
             ELSE before[v])
            - fee_paid(locks, used, price, tip, outcome = "CommitSuccess", v)]

\* The store after the transaction: untouched on Reject; on CommitFailure the
\* state before the transaction less the fee; on CommitSuccess the working copy
\* with every locked entry's unused part returned to its vault.
commit(outcome, before, balances, locks, used, price, tip) ==
    IF outcome = "Reject" THEN before
    ELSE [v \in Vaults |->
            (IF outcome = "CommitSuccess"
             THEN balances[v] + sum_for_vault(locks, locked_amounts(locks), v)
             ELSE before[v])
            - fee_paid(locks, used, price, tip, outcome = "CommitSuccess", v)]

\* The loan is not looked at.
outcome_ignoring_loan(error, repaid) ==
    IF error = "none" THEN "CommitSuccess" ELSE "CommitFailure"

\* The receipt's kind: an error, or the end of the manifest, before the loan is
\* repaid rejects the transaction.
outcome_of(error, repaid) ==
    IF ~repaid THEN "Reject"
    ELSE IF error = "none" THEN "CommitSuccess" ELSE "CommitFailure"

Running == receipt.kind = "none"

\* The transaction ends with `error` ("none": the manifest ran to its end).
End(error, used, locks, balances) ==
    LET outcome == outcome_of(error, loan_repaid(locks, cost_unit_price, tip_percentage)) IN
    /\ receipt' = [kind |-> outcome, error |-> error]
    /\ store' = commit(outcome, store0, balances, locks, used,
                       cost_unit_price, tip_percentage)

\* An instruction's cost is charged before it runs.
Charge(units) ==
    charge(consumed, units, locked_fees, cost_unit_price, tip_percentage)

\* The charge `r` of `units` is recorded; a refused charge ends the transaction.
Metered(units, r) ==
    /\ feeLast' = [op |-> "consume", units |-> units, before |-> consumed,
                   result |-> r.result]
    /\ consumed' = r.consumed
    /\ r.result # "Ok" =>
          /\ End(r.result, r.consumed, locked_fees, track)
          /\ UNCHANGED <<track, worktop, bucket, locked_fees, transferred>>

LockFeeEffect(used, vault, amount, contingent) ==
    LET r == lock_fee(track, locked_fees, vault, amount, contingent,
                      cost_unit_price, tip_percentage) IN
    IF r.result = "Ok"
    THEN /\ track' = r.track
         /\ locked_fees' = r.locked_fees
         /\ UNCHANGED <<worktop, bucket, transferred, receipt, store>>
    ELSE /\ End(r.result, used, locked_fees, track)
         /\ UNCHANGED <<track, worktop, bucket, locked_fees, transferred>>

\* lock_fee / lock_contingent_fee on a vault
LockFee ==
    /\ Running
    /\ Len(locked_fees) < MaxLocks
    /\ \E units \in InstructionCost, vault \in Vaults, amount \in LockAmounts,
          contingent \in BOOLEAN :
        LET r == Charge(units) IN
        /\ Metered(units, r)
        /\ r.result = "Ok" => LockFeeEffect(r.consumed, vault, amount, contingent)
    /\ UNCHANGED <<store0, cost_unit_price, tip_percentage, resVars, authVars, extVars>>

WithdrawEffect(used, vault, amount) ==
    IF ~loan_repaid(locked_fees, cost_unit_price, tip_percentage)
    THEN /\ End("WriteBeforeLoanRepaid", used, locked_fees, track)
         /\ UNCHANGED <<track, worktop, bucket, locked_fees, transferred>>
    ELSE IF track[vault] < amount
    THEN /\ End("InsufficientBalance", used, locked_fees, track)
         /\ UNCHANGED <<track, worktop, bucket, locked_fees, transferred>>
    ELSE /\ track' = [track EXCEPT ![vault] = @ - amount]
         /\ worktop' = worktop + amount
         /\ transferred' = [transferred EXCEPT ![vault] = @ + amount]
         /\ UNCHANGED <<bucket, locked_fees, receipt, store>>

\* withdraw_from_account_by_amount: from the account's vault to the worktop
Withdraw ==
    /\ Running
    /\ \E units \in InstructionCost, vault \in Accounts, amount \in TransferAmounts :
        LET r == Charge(units) IN
        /\ Metered(units, r)
        /\ r.result = "Ok" => WithdrawEffect(r.consumed, vault, amount)
    /\ UNCHANGED <<store0, cost_unit_price, tip_percentage, resVars, authVars, extVars>>

DepositEffect(used, vault) ==
    IF ~loan_repaid(locked_fees, cost_unit_price, tip_percentage)
    THEN /\ End("WriteBeforeLoanRepaid", used, locked_fees, track)
         /\ UNCHANGED <<track, worktop, bucket, locked_fees, transferred>>
    ELSE /\ track' = [track EXCEPT ![vault] = @ + worktop]
         /\ worktop' = 0
         /\ transferred' = [transferred EXCEPT ![vault] = @ - worktop]
         /\ UNCHANGED <<bucket, locked_fees, receipt, store>>

\* deposit_batch(Expression::entire_worktop())
DepositBatch ==
    /\ Running
    /\ \E units \in InstructionCost, vault \in Accounts :
        LET r == Charge(units) IN
        /\ Metered(units, r)
        /\ r.result = "Ok" => DepositEffect(r.consumed, vault)
    /\ UNCHANGED <<store0, cost_unit_price, tip_percentage, resVars, authVars, extVars>>

AssertEffect(used, amount) ==
    IF worktop < amount
    THEN /\ End("AssertionFailed", used, locked_fees, track)
         /\ UNCHANGED <<track, worktop, bucket, locked_fees, transferred>>
    ELSE UNCHANGED <<track, worktop, bucket, locked_fees, transferred, receipt, store>>

\* assert_worktop_contains_by_amount
AssertWorktopContains ==
    /\ Running
    /\ \E units \in InstructionCost, amount \in TransferAmounts :
        LET r == Charge(units) IN
        /\ Metered(units, r)
        /\ r.result = "Ok" => AssertEffect(r.consumed, amount)
    /\ UNCHANGED <<store0, cost_unit_price, tip_percentage, resVars, authVars, extVars>>

TakeFromWorktopEffect(used, amount) ==
    IF worktop < amount
    THEN /\ End("InsufficientBalance", used, locked_fees, track)
         /\ UNCHANGED <<track, worktop, bucket, locked_fees, transferred>>
    ELSE /\ worktop' = worktop - amount
         /\ bucket' = bucket + amount
         /\ UNCHANGED <<track, locked_fees, transferred, receipt, store>>

\* take_from_worktop: an amount goes from the worktop into a bucket, which the
\* manifest then holds to the end.
TakeFromWorktop ==
    /\ Running
    /\ \E units \in InstructionCost, amount \in TransferAmounts :
        LET r == Charge(units) IN
        /\ Metered(units, r)
        /\ r.result = "Ok" => TakeFromWorktopEffect(r.consumed, amount)
    /\ UNCHANGED <<store0, cost_unit_price, tip_percentage, resVars, authVars, extVars>>

\* Blueprint code runs: the wasm metering calls consume_cost_units(n).
RunWasm ==
    /\ Running
    /\ \E n \in 0..(MaxUnits + 1) :
        LET r == Charge(n) IN
        /\ Metered(n, r)
        /\ r.result = "Ok" => UNCHANGED <<track, worktop, bucket, locked_fees, transferred,
                                          receipt, store>>
    /\ UNCHANGED <<store0, cost_unit_price, tip_percentage, resVars, authVars, extVars>>

\* Only the worktop is looked at when the manifest ends.
FinishWorktopOnly ==
    /\ Running
    /\ End(IF worktop # 0
              /\ loan_repaid(locked_fees, cost_unit_price, tip_percentage)
           THEN "DropNonEmptyBucket" ELSE "none",
           consumed, locked_fees, track)
    /\ feeLast' = [op |-> "finalize"]
    /\ UNCHANGED <<store0, track, worktop, bucket, consumed, locked_fees, cost_unit_price,
                   tip_percentage, transferred, resVars, authVars, extVars>>

\* The manifest ends: the worktop must be empty and no bucket may be left with
\* resources in it; the fees are settled.
Finish ==
    /\ Running
    /\ End(IF (worktop # 0 \/ bucket # 0)
              /\ loan_repaid(locked_fees, cost_unit_price, tip_percentage)
           THEN "DropNonEmptyBucket" ELSE "none",
           consumed, locked_fees, track)
    /\ feeLast' = [op |-> "finalize"]
    /\ UNCHANGED <<store0, track, worktop, bucket, consumed, locked_fees, cost_unit_price,
                   tip_percentage, transferred, resVars, authVars, extVars>>

NextFee ==
    \/ LockFee
    \/ Withdraw
    \/ DepositBatch
    \/ AssertWorktopContains
    \/ TakeFromWorktop
    \/ RunWasm
    \/ Finish

(***************************************************************************)
(* A vault and its freeze flags                                            *)
(***************************************************************************)
\* VaultFreezeFlags: one bit per operation that can be frozen.
VaultFreezeFlags == {"Withdraw", "Deposit", "Burn", "Recall"}

\* VaultFrozenFlag::default: VaultFreezeFlags::empty()
VaultFrozenFlag_default == {}

\* An operation consults the flag set and fails Frozen if its bit is set.
assert_not_frozen(frozen, flag) == IF flag \in frozen THEN "Frozen" ELSE "Ok"

\* take from the vault: the Withdraw bit, then the container's take_by_amount.
vault_take(liquid, frozen, amount) ==
    IF assert_not_frozen(frozen, "Withdraw") # "Ok"
    THEN [result |-> "Frozen", self |-> liquid, taken |-> 0]
    ELSE LiquidFungibleResource_take_by_amount(liquid, amount)

\* put into the vault: the Deposit bit, then the container's put.
vault_put(liquid, frozen, amount) ==
    IF assert_not_frozen(frozen, "Deposit") # "Ok"
    THEN [result |-> "Frozen", self |-> liquid, taken |-> 0]
    ELSE [result |-> "Ok", self |-> LiquidFungibleResource_put(liquid, amount),
          taken |-> 0]

\* burn out of the vault: the Burn bit, then the container's take_by_amount.
vault_burn(liquid, frozen, amount) ==
    IF assert_not_frozen(frozen, "Burn") # "Ok"
    THEN [result |-> "Frozen", self |-> liquid, taken |-> 0]
    ELSE LiquidFungibleResource_take_by_amount(liquid, amount)

\* recall: its own bit, then the vault's take, which consults the Withdraw bit
\* (recalling from a vault frozen for withdraw is not allowed yet).
vault_recall(liquid, frozen, amount) ==
    IF assert_not_frozen(frozen, "Recall") # "Ok"
    THEN [result |-> "Frozen", self |-> liquid, taken |-> 0]
    ELSE vault_take(liquid, frozen, amount)

VaultAmounts == 0..MaxAmount

VaultOp(name, flag, amount, r) ==
    /\ InRange(r.self)
    /\ vault_liquid' = r.self
    /\ vaultLast' = [op |-> name, flag |-> flag, arg |-> amount, before |-> vault_liquid,
                     frozen |-> vault_frozen, result |-> r.result]
    /\ UNCHANGED <<vault_frozen, vault_was_frozen, resVars, authVars, feeVars, lockVars, dbVars, pureVars, eventVars, lateVars>>

VaultWithdraw ==
    \E a \in VaultAmounts :
        VaultOp("withdraw", "Withdraw", a, vault_take(vault_liquid, vault_frozen, a))

VaultDeposit ==
    \E a \in VaultAmounts :
        VaultOp("deposit", "Deposit", a, vault_put(vault_liquid, vault_frozen, a))

VaultBurn ==
    \E a \in VaultAmounts :
        VaultOp("burn", "Burn", a, vault_burn(vault_liquid, vault_frozen, a))

VaultRecall ==
    \E a \in VaultAmounts :
        VaultOp("recall", "Recall", a, vault_recall(vault_liquid, vault_frozen, a))

\* freeze(flags): frozen.insert(flags)
VaultFreeze ==
    /\ \E flags \in SUBSET VaultFreezeFlags :
        /\ flags # {}
        /\ vault_frozen' = vault_frozen \cup flags
        /\ vaultLast' = [op |-> "freeze", flag |-> "none", arg |-> 0,
                         before |-> vault_liquid, frozen |-> vault_frozen,
                         result |-> "Ok"]
    /\ vault_was_frozen' = TRUE
    /\ UNCHANGED <<vault_liquid, resVars, authVars, feeVars, lockVars, dbVars, pureVars, eventVars, lateVars>>

\* unfreeze(flags): frozen.remove(flags)
VaultUnfreeze ==
    /\ \E flags \in SUBSET VaultFreezeFlags :
        /\ flags # {}
        /\ vault_frozen' = vault_frozen \ flags
        /\ vaultLast' = [op |-> "unfreeze", flag |-> "none", arg |-> 0,
                         before |-> vault_liquid, frozen |-> vault_frozen,
                         result |-> "Ok"]
    /\ UNCHANGED <<vault_liquid, vault_was_frozen, resVars, authVars, feeVars, lockVars, dbVars, pureVars, eventVars, lateVars>>

NextVault ==
    \/ VaultWithdraw
    \/ VaultDeposit
    \/ VaultBurn
    \/ VaultRecall
    \/ VaultFreeze
    \/ VaultUnfreeze

(***************************************************************************)
(* Substate locks: the field locks of the running actor                    *)
(***************************************************************************)
MaxHandles == 3
MaxLockDepth == 2

\* The fields of the object the frames act on.
Fields == {0, 1}
\* LockFlags bits: MUTABLE; every other bit of the model's range is unknown.
MUTABLE == 1
LockFlagBits == {0, MUTABLE, 2}
FieldData == {0, 1}
ParkedFields == [f \in Fields |-> 0]

\* LockFlags::from_bits(flags)
LockFlags_from_bits(flags) ==
    IF flags \in {0, MUTABLE} THEN [ok |-> TRUE, mutable |-> flags = MUTABLE]
    ELSE [ok |-> FALSE, mutable |-> FALSE]

\* lock_substate: a writable request conflicts with any lock on the substate, a
\* read-only request with a writable lock on it.
lock_substate(held, field, mutable) ==
    IF \E l \in held : l.field = field /\ (mutable \/ l.mutable)
    THEN "AlreadyLocked"
    ELSE "Ok"

\* The kernel's answer is not propagated: a decodable request is granted.
actor_lock_field_error_dropped(held, field, flags) ==
    IF ~LockFlags_from_bits(flags).ok THEN "InvalidLockFlags" ELSE "Ok"

\* ScryptoRuntime::actor_lock_field: the flags are decoded, then the kernel locks.
actor_lock_field(held, field, flags) ==
    LET decoded == LockFlags_from_bits(flags) IN
    IF ~decoded.ok THEN "InvalidLockFlags"
    ELSE lock_substate(held, field, decoded.mutable)

ActorLockField ==
    /\ lock_depth >= 1
    /\ next_handle < MaxHandles
    /\ \E field \in Fields, flags \in LockFlagBits :
        LET result == actor_lock_field(locked_handles, field, flags) IN
        /\ lockLast' = [op |-> "actor_lock_field", field |-> field, flags |-> flags,
                        handle |-> next_handle, before |-> locked_handles, result |-> result]
        /\ IF result = "Ok"
           THEN /\ locked_handles' = locked_handles \cup
                      {[handle |-> next_handle, frame |-> lock_depth,
                                         field |-> field,
                                         mutable |-> LockFlags_from_bits(flags).mutable]}
                /\ next_handle' = next_handle + 1
           ELSE UNCHANGED <<locked_handles, next_handle>>
    /\ UNCHANGED <<lock_depth, fields, resVars, authVars, feeVars, vaultVars, dbVars, pureVars, eventVars, lateVars>>

\* The lock of the running frame with this handle, if any.
LockOf(handle) == {l \in locked_handles : l.handle = handle /\ l.frame = lock_depth}

\* ScryptoRuntime::field_lock_write: the data goes to the field if the handle is
\* a writable lock of the running frame.
FieldLockWrite ==
    /\ lock_depth >= 1
    /\ \E handle \in 0..(MaxHandles - 1), data \in FieldData :
        LET result == IF LockOf(handle) = {} THEN "LockNotFound"
                      ELSE IF \E l \in LockOf(handle) : ~l.mutable THEN "LockNotMutable"
                      ELSE "Ok"
        IN
        /\ lockLast' = [op |-> "field_lock_write", field |-> 0, flags |-> 0,
                        handle |-> handle, before |-> locked_handles, result |-> result]
        /\ fields' = IF result = "Ok"
                     THEN [fields EXCEPT ![(CHOOSE l \in LockOf(handle) : TRUE).field] = data]
                     ELSE fields
    /\ UNCHANGED <<locked_handles, next_handle, lock_depth, resVars, authVars, feeVars, vaultVars, dbVars, pureVars, eventVars, lateVars>>

\* ScryptoRuntime::field_lock_release: the lock is dropped.
FieldLockRelease ==
    /\ lock_depth >= 1
    /\ \E handle \in 0..(MaxHandles - 1) :
        LET result == IF LockOf(handle) = {} THEN "LockNotFound" ELSE "Ok" IN
        /\ lockLast' = [op |-> "field_lock_release", field |-> 0, flags |-> 0,
                        handle |-> handle, before |-> locked_handles, result |-> result]
        /\ locked_handles' = locked_handles \ LockOf(handle)
    /\ UNCHANGED <<next_handle, lock_depth, fields, resVars, authVars, feeVars, vaultVars, dbVars, pureVars, eventVars, lateVars>>

\* A call: a new frame runs; the caller's locks stay held.
LockPushFrame ==
    /\ lock_depth < MaxLockDepth
    /\ lock_depth' = lock_depth + 1
    /\ lockLast' = [op |-> "push_frame", field |-> 0, flags |-> 0, handle |-> 0,
                    before |-> locked_handles, result |-> "Ok"]
    /\ UNCHANGED <<locked_handles, next_handle, fields, resVars, authVars, feeVars, vaultVars, dbVars, pureVars, eventVars, lateVars>>

\* The running frame returns: the locks it still holds are dropped.
LockPopFrame ==
    /\ lock_depth >= 1
    /\ lock_depth' = lock_depth - 1
    /\ locked_handles' = {l \in locked_handles : l.frame # lock_depth}
    /\ lockLast' = [op |-> "pop_frame", field |-> 0, flags |-> 0, handle |-> 0,
                    before |-> locked_handles, result |-> "Ok"]
    /\ UNCHANGED <<next_handle, fields, resVars, authVars, feeVars, vaultVars, dbVars, pureVars, eventVars, lateVars>>

NextLock ==
    \/ ActorLockField
    \/ FieldLockWrite
    \/ FieldLockRelease
    \/ LockPushFrame
    \/ LockPopFrame

(***************************************************************************)
(* The in-memory substate database                                         *)
(***************************************************************************)
MaxDbUpdates == 3

\* NodeId is one byte here, ModuleId one byte, a SubstateKey one or two bytes.
NodeIds == {1, 2}
ModuleIds == {0, 1}
SubstateKey_MIN_LENGTH == 1
SubstateKey_MAX_LENGTH == 2
SubstateKey_min == [i \in 1..SubstateKey_MIN_LENGTH |-> 0]
SubstateKey_max == [i \in 1..SubstateKey_MAX_LENGTH |-> 255]
SubstateKeys == {<<255>>, <<0, 255>>}
\* Node 1 has both modules, node 2 the first one only.
SubstateIds == {id \in NodeIds \X ModuleIds \X SubstateKeys : id[1] = 1 \/ id[2] = 0}
SubstateValues == {<<>>, <<7>>}

\* Option<Vec<u8>>
Option_None == [kind |-> "None", value |-> <<>>]
Option_Some(v) == [kind |-> "Some", value |-> v]

\* StateUpdate
StateUpdate_Delete == [kind |-> "Delete", value |-> <<>>]
StateUpdate_Set(v) == [kind |-> "Set", value |-> v]
StateUpdate == {StateUpdate_Delete} \cup {StateUpdate_Set(v) : v \in SubstateValues}
NeverUpdated == [id \in SubstateIds |-> [kind |-> "never", value |-> <<>>]]

\* concat(node_id_bytes, module_id_byte, key_bytes)
encode_substate_id(node_id, module_id, substate_key) ==
    <<node_id, module_id>> \o substate_key

decode_substate_id(slice) ==
    IF /\ Len(slice) >= 2 + SubstateKey_MIN_LENGTH
       /\ Len(slice) <= 2 + SubstateKey_MAX_LENGTH
    THEN [ok |-> TRUE, node_id |-> slice[1], module_id |-> slice[2],
          substate_key |-> SubSeq(slice, 3, Len(slice))]
    ELSE [ok |-> FALSE, node_id |-> 0, module_id |-> 0, substate_key |-> <<>>]

\* The payload of a Vec<u8>: the dialect prefix, the Array kind, the U8 element
\* kind, the length, the bytes.
ScryptoPayloadHeader == <<92, 32, 7>>
scrypto_encode(value) == ScryptoPayloadHeader \o <<Len(value)>> \o value

scrypto_decode(bytes) ==
    IF /\ Len(bytes) >= 4
       /\ SubSeq(bytes, 1, 3) = ScryptoPayloadHeader
       /\ bytes[4] = Len(bytes) - 4
    THEN [ok |-> TRUE, value |-> SubSeq(bytes, 5, Len(bytes))]
    ELSE [ok |-> FALSE, value |-> <<>>]

\* Shorter keys first, keys of one length byte by byte.
ShortLexLess(a, b) ==
    \/ Len(a) < Len(b)
    \/ /\ Len(a) = Len(b)
       /\ \E i \in 1..Len(a) : a[i] < b[i] /\ \A j \in 1..(i - 1) : a[j] = b[j]

\* The order of Vec<u8>, the order of the BTreeMap's keys.
RECURSIVE LexLess(_, _)
LexLess(a, b) ==
    IF b = <<>> THEN FALSE
    ELSE IF a = <<>> THEN TRUE
    ELSE IF a[1] # b[1] THEN a[1] < b[1]
    ELSE LexLess(Tail(a), Tail(b))

LexLeq(a, b) == a = b \/ LexLess(a, b)

RECURSIVE Ascending(_)
Ascending(keys) ==
    IF keys = {} THEN <<>>
    ELSE LET first == CHOOSE k \in keys : \A other \in keys : LexLeq(k, other)
         IN  <<first>> \o Ascending(keys \ {first})

\* BTreeMap::insert, remove, range((Included(start), Included(end)))
btree_insert(map, key, value) ==
    [k \in DOMAIN map \cup {key} |-> IF k = key THEN value ELSE map[k]]

btree_remove(map, key) == [k \in DOMAIN map \ {key} |-> map[k]]

btree_range(map, start, end) ==
    Ascending({k \in DOMAIN map : LexLeq(start, k) /\ LexLeq(k, end)})

\* InMemorySubstateDatabase::get_substate
get_substate(map, node_id, module_id, substate_key) ==
    LET key == encode_substate_id(node_id, module_id, substate_key) IN
    IF key \notin DOMAIN map THEN Option_None
    ELSE IF scrypto_decode(map[key]).ok
         THEN Option_Some(scrypto_decode(map[key]).value)
    ELSE [kind |-> "panic", value |-> <<>>]

\* InMemorySubstateDatabase::list_substates
list_substates(map, node_id, module_id) ==
    LET start == encode_substate_id(node_id, module_id, SubstateKey_min)
        end == encode_substate_id(node_id, module_id, SubstateKey_max)
        iter == btree_range(map, start, end)
    IN  [i \in 1..Len(iter) |->
            IF decode_substate_id(iter[i]).ok /\ scrypto_decode(map[iter[i]]).ok
            THEN <<decode_substate_id(iter[i]).substate_key,
                   scrypto_decode(map[iter[i]]).value>>
            ELSE <<"panic", "panic">>]

\* A Delete leaves the entry in the map.
apply_update_keeps_deleted(map, update) ==
    IF update.change.kind = "Set"
    THEN btree_insert(map, encode_substate_id(update.id[1], update.id[2], update.id[3]),
                      scrypto_encode(update.change.value))
    ELSE map

\* One turn of the loop of commit.
apply_update(map, update) ==
    LET substate_id == encode_substate_id(update.id[1], update.id[2], update.id[3]) IN
    IF update.change.kind = "Set"
    THEN btree_insert(map, substate_id, scrypto_encode(update.change.value))
    ELSE btree_remove(map, substate_id)

\* InMemorySubstateDatabase::commit
RECURSIVE InMemorySubstateDatabase_commit(_, _)
InMemorySubstateDatabase_commit(map, state_changes) ==
    IF state_changes = <<>> THEN map
    ELSE InMemorySubstateDatabase_commit(apply_update(map, Head(state_changes)),
                                         Tail(state_changes))

\* The update committed last for each substate id.
Latest(last, state_changes) ==
    [id \in SubstateIds |->
        LET at == {i \in 1..Len(state_changes) : state_changes[i].id = id} IN
        IF at = {} THEN last[id]
        ELSE state_changes[CHOOSE i \in at : \A j \in at : j <= i].change]

Update == [id : SubstateIds, change : StateUpdate]
StateUpdates(n) == UNION {[1..len -> Update] : len \in 0..n}

\* commit(&mut self, state_changes)
Commit ==
    /\ db_pc = "idle"
    /\ \E state_changes \in StateUpdates(MaxDbUpdates - db_count) :
        /\ substates' = InMemorySubstateDatabase_commit(substates, state_changes)
        /\ last_update' = Latest(last_update, state_changes)
        /\ db_before' = substates
        /\ db_updates' = state_changes
        /\ db_count' = db_count + Len(state_changes)
    /\ UNCHANGED <<db_pending, db_pc, db_seen, resVars, authVars, feeVars, vaultVars, lockVars, pureVars, eventVars, lateVars>>

NextDb == Commit

\* ---- commit turn by turn, next to the readers of the database
MaxStepUpdates == 2

\* What get_substate and list_substates return on a map, for every argument.
Reads(map) ==
    [get |-> [id \in SubstateIds |-> get_substate(map, id[1], id[2], id[3])],
     list |-> [at \in NodeIds \X ModuleIds |-> list_substates(map, at[1], at[2])]]

\* A reader runs whatever commit is doing.
borrow_shared_unchecked(pc) == TRUE

\* get_substate(&self) and list_substates(&self) borrow the database shared, which
\* the exclusive borrow of a running commit(&mut self) rules out.
borrow_shared(pc) == pc = "idle"

\* commit is called: it holds the database until its loop is over.
CommitCall ==
    /\ db_pc = "idle"
    /\ \E state_changes \in StateUpdates(MaxStepUpdates - db_count) :
        /\ db_before' = substates
        /\ db_updates' = state_changes
        /\ db_pending' = state_changes
        /\ db_count' = db_count + Len(state_changes)
    /\ db_pc' = "commit"
    /\ UNCHANGED <<substates, last_update, db_seen, resVars, authVars, feeVars, vaultVars, lockVars, pureVars, eventVars, lateVars>>

\* One turn of the loop of commit; commit returns when no update is left.
CommitLoop ==
    /\ db_pc = "commit"
    /\ IF db_pending = <<>>
       THEN /\ db_pc' = "idle"
            /\ last_update' = Latest(last_update, db_updates)
            /\ UNCHANGED <<substates, db_pending>>
       ELSE /\ substates' = apply_update(substates, Head(db_pending))
            /\ db_pending' = Tail(db_pending)
            /\ UNCHANGED <<db_pc, last_update>>
    /\ UNCHANGED <<db_before, db_updates, db_count, db_seen, resVars, authVars, feeVars, vaultVars, lockVars, pureVars, eventVars, lateVars>>

\* A caller reads the database with get_substate and list_substates.
Read ==
    /\ borrow_shared(db_pc)
    /\ db_seen' = [op |-> "read", before |-> db_before, updates |-> db_updates,
                   reads |-> Reads(substates)]
    /\ UNCHANGED <<substates, last_update, db_before, db_updates, db_pending, db_pc,
                   db_count, resVars, authVars, feeVars, vaultVars, lockVars, pureVars, eventVars, lateVars>>

NextDbSteps ==
    \/ CommitCall
    \/ CommitLoop
    \/ Read

(***************************************************************************)
(* Auth module: the rule a method call has to pass                         *)
(***************************************************************************)
\* The receiver of a method: an owned object, a normal global component, another
\* global object.
ReceiverNodes == {"Object", "GlobalObject::Component::Normal", "GlobalObject::Resource"}
\* TypeInfo of an owned object: (package_address, blueprint)
TypeInfos == {<<"RESOURCE_MANAGER_PACKAGE", "VAULT_BLUEPRINT">>,
              <<"RESOURCE_MANAGER_PACKAGE", "BUCKET_BLUEPRINT">>}
TypedModuleIds == {"ObjectState", "AccessRules", "AccessRules1", "Metadata"}
MethodIdents == {"VAULT_RECALL_IDENT", "VAULT_RECALL_NON_FUNGIBLES_IDENT", "take",
                 "ACCESS_RULES_SET_METHOD_ACCESS_RULE_IDENT", "get"}
\* kernel_get_node_visibility_origin
Visibilities == {"Normal", "DirectAccess", "NotVisible"}

AccessRulesSetters == {"ACCESS_RULES_SET_METHOD_ACCESS_RULE_IDENT"}

\* The rules are kept symbolic: the rule an access rules substate gives for a
\* method key, the rule of one of its groups, the rule a setter computes.
MethodRule(holder, rules_module, module_id, ident) ==
    [type |-> "access_rules.get_access_rule", holder |-> holder, in |-> rules_module,
     module_id |-> module_id, ident |-> ident]
GroupRule(holder, rules_module, group) ==
    [type |-> "access_rules.get_group_access_rule", holder |-> holder,
     in |-> rules_module, module_id |-> "none", ident |-> group]
SetterRule(node, module_id, ident) ==
    [type |-> "get_authorization_for_setter", holder |-> node, in |-> module_id,
     module_id |-> module_id, ident |-> ident]
MethodAllowAll ==
    [type |-> "AllowAll", holder |-> "none", in |-> "none", module_id |-> "none",
     ident |-> "none"]

AuthOk(authorization) == [kind |-> "Ok", value |-> authorization]
AuthErr(error) == [kind |-> "Err", value |-> error]

\* method_authorization_stateless / method_authorization_stateful: both read the
\* rule of the method key in the receiver's access rules.
method_authorization(receiver, rules_module, module_id, ident) ==
    AuthOk(MethodRule(receiver, rules_module, module_id, ident))

\* AuthModule::method_auth; the vault's resource is "resource".
method_auth(node_id, module_id, ident, type_info, visibility) ==
    IF module_id \in {"AccessRules", "AccessRules1"}
    THEN IF ident \in AccessRulesSetters
         THEN AuthOk(SetterRule(node_id, module_id, ident))
         ELSE AuthOk(MethodAllowAll)
    ELSE IF node_id = "Object"
    THEN IF type_info = <<"RESOURCE_MANAGER_PACKAGE", "VAULT_BLUEPRINT">>
         THEN IF visibility = "NotVisible" THEN AuthErr("RENodeNotVisible")
              ELSE IF visibility = "Normal"
              THEN method_authorization("resource", "AccessRules1", module_id, ident)
              ELSE IF /\ module_id = "ObjectState"
                      /\ ident \in {"VAULT_RECALL_IDENT", "VAULT_RECALL_NON_FUNGIBLES_IDENT"}
              THEN AuthOk(GroupRule("resource", "AccessRules1", "recall"))
              ELSE AuthErr("VisibilityError")
         ELSE AuthOk(MethodAllowAll)
    ELSE method_authorization(node_id, "AccessRules", module_id, ident)

MethodAuth ==
    /\ \E node_id \in ReceiverNodes, module_id \in TypedModuleIds,
          ident \in MethodIdents, type_info \in TypeInfos, visibility \in Visibilities :
        callLast' = [op |-> "method_auth", node_id |-> node_id, module_id |-> module_id,
                     ident |-> ident, type_info |-> type_info,
                     visibility |-> visibility,
                     result |-> method_auth(node_id, module_id, ident, type_info,
                                            visibility)]
    /\ UNCHANGED <<resVars, authVars, feeVars, vaultVars, lockVars, dbVars, eventVars, lateVars>>

NextMethodAuth == MethodAuth

(***************************************************************************)
(* Events of a transaction                                                 *)
(***************************************************************************)
MaxEvents == 4

\* Event names as the bytes a blueprint hands to the host; a byte of 255 is in
\* no well-formed UTF-8 string, the other bytes used are ASCII letters.
LockFeeEvent == <<76>>
WithdrawResourceEvent == <<87>>
RecallResourceEvent == <<82>>
DepositResourceEvent == <<68>>
MintResourceEvent == <<77>>
BurnResourceEvent == <<66>>
RegisteredEvent == <<69>>
UnregisteredEvent == <<85>>
InvalidName == <<255>>

\* The event names each blueprint's schema declares.
event_schema(blueprint) ==
    CASE blueprint = "Vault" ->
            {LockFeeEvent, WithdrawResourceEvent, RecallResourceEvent,
             DepositResourceEvent}
      [] blueprint = "ResourceManager" -> {MintResourceEvent, BurnResourceEvent}
      [] blueprint = "ScryptoEvents" -> {RegisteredEvent}
      [] OTHER -> {}

String_from_utf8(bytes) ==
    IF \A i \in 1..Len(bytes) : bytes[i] < 128
    THEN [kind |-> "Ok", value |-> bytes]
    ELSE [kind |-> "Err", value |-> <<>>]

\* ClientEventApi::emit_event of the events module: the emitter's blueprint has to
\* declare the name, and then the event goes to the end of the store.
ClientEventApi_emit_event(events, blueprint, event_name, event) ==
    IF event_name \in event_schema(blueprint)
    THEN [error |-> NoError,
          store |-> Append(events, [emitter |-> blueprint, name |-> event_name,
                                    data |-> event])]
    ELSE [error |-> [kind |-> "EventError::SchemaNotFoundError"], store |-> events]

emit_event_not_forwarded(events, blueprint, event_name, event) ==
    [error |-> NoError, store |-> events]

emit_event_error_dropped(events, blueprint, event_name, event) ==
    LET name == String_from_utf8(event_name) IN
    IF name.kind = "Err"
    THEN [error |-> [kind |-> "WasmRuntimeError::InvalidString"], store |-> events]
    ELSE [error |-> NoError,
          store |-> ClientEventApi_emit_event(events, blueprint, name.value, event).store]

\* ScryptoRuntime::emit_event, the host call of blueprint code.
emit_event(events, blueprint, event_name, event) ==
    LET name == String_from_utf8(event_name) IN
    IF name.kind = "Err"
    THEN [error |-> [kind |-> "WasmRuntimeError::InvalidString"], store |-> events]
    ELSE ClientEventApi_emit_event(events, blueprint, name.value, event)

TransactionRunning == event_error = NoError /\ event_receipt = NoReceipt

EventNames == {RegisteredEvent, UnregisteredEvent, InvalidName}
EventPayloads == {<<12>>}

\* Blueprint code calls the host's emit_event.
ScryptoEmit ==
    /\ TransactionRunning
    /\ Len(emit_log) < MaxEvents
    /\ \E event_name \in EventNames, event \in EventPayloads :
        LET r == emit_event(event_store, "ScryptoEvents", event_name, event) IN
        /\ event_store' = r.store
        /\ event_error' = r.error
        /\ emit_log' = IF r.error = NoError
                       THEN Append(emit_log, [emitter |-> "ScryptoEvents",
                                              name |-> event_name, data |-> event])
                       ELSE emit_log
        /\ eventLast' = [op |-> "emit_event", blueprint |-> "ScryptoEvents",
                         event_name |-> event_name, event |-> event,
                         error |-> r.error, before |-> event_store]
    /\ UNCHANGED event_receipt
    /\ UNCHANGED <<resVars, authVars, feeVars, vaultVars, lockVars, dbVars, pureVars, lateVars>>

\* The events the native blueprints emit for an instruction, in emission order.
NativeEmissions ==
    {[instruction |-> "lock_fee",
      events |-> <<[emitter |-> "Vault", name |-> LockFeeEvent, data |-> <<10>>]>>],
     [instruction |-> "recall",
      events |-> <<[emitter |-> "Vault", name |-> WithdrawResourceEvent, data |-> <<1>>],
                   [emitter |-> "Vault", name |-> RecallResourceEvent, data |-> <<1>>]>>],
     [instruction |-> "deposit_batch",
      events |-> <<[emitter |-> "Vault", name |-> DepositResourceEvent, data |-> <<1>>]>>],
     [instruction |-> "mint_fungible",
      events |-> <<[emitter |-> "ResourceManager", name |-> MintResourceEvent,
                    data |-> <<10>>]>>],
     [instruction |-> "burn",
      events |-> <<[emitter |-> "ResourceManager", name |-> BurnResourceEvent,
                    data |-> <<10>>]>>]}

RECURSIVE emit_all(_, _)
emit_all(events, emissions) ==
    IF emissions = <<>> THEN events
    ELSE emit_all(ClientEventApi_emit_event(events, Head(emissions).emitter,
                                            Head(emissions).name,
                                            Head(emissions).data).store,
                  Tail(emissions))

\* An instruction of the manifest runs native code, which emits its events.
NativeInstruction ==
    /\ TransactionRunning
    /\ \E emission \in NativeEmissions :
        /\ Len(emit_log) + Len(emission.events) <= MaxEvents
        /\ event_store' = emit_all(event_store, emission.events)
        /\ emit_log' = emit_log \o emission.events
        /\ eventLast' = [op |-> emission.instruction, blueprint |-> "native",
                         event_name |-> <<>>, event |-> <<>>, error |-> NoError,
                         before |-> event_store]
    /\ UNCHANGED <<event_error, event_receipt>>
    /\ UNCHANGED <<resVars, authVars, feeVars, vaultVars, lockVars, dbVars, pureVars, lateVars>>

\* The transaction ends: a commit with the events of the store, or a failure
\* with the error that stopped it.
FinishTransaction ==
    /\ event_receipt = NoReceipt
    /\ event_receipt' =
          IF event_error = NoError
          THEN [outcome |-> "CommitSuccess", error |-> NoError,
                application_events |-> event_store]
          ELSE [outcome |-> "CommitFailure", error |-> event_error,
                application_events |-> <<>>]
    /\ UNCHANGED <<event_store, emit_log, event_error, eventLast>>
    /\ UNCHANGED <<resVars, authVars, feeVars, vaultVars, lockVars, dbVars, pureVars, lateVars>>

NextEvents == ScryptoEmit \/ NativeInstruction \/ FinishTransaction

(***************************************************************************)
(* Codec: integers and manifest values                                     *)
(***************************************************************************)
MANIFEST_SBOR_V1_MAX_DEPTH == 24
MaxNest == 4

\* An integer is a sign and a magnitude; the magnitude is written in base 256,
\* lowest digit first, with as many digits as the type has bytes.
IntTypes == {"i8", "i16", "i32", "i64", "i128", "isize",
             "u8", "u16", "u32", "u64", "u128", "usize"}
\* target_pointer_width of the build, in bytes
PointerWidths == {4, 8}

IsSigned(type) == type \in {"i8", "i16", "i32", "i64", "i128", "isize"}

ByteWidth(type, pointer_width) ==
    CASE type \in {"i8", "u8"} -> 1
      [] type \in {"i16", "u16"} -> 2
      [] type \in {"i32", "u32"} -> 4
      [] type \in {"i64", "u64"} -> 8
      [] type \in {"i128", "u128"} -> 16
      [] type \in {"isize", "usize"} -> pointer_width

\* Self::value_kind(): isize and usize are written as I64 and U64.
value_kind(type) ==
    CASE type = "i8" -> 2 [] type = "i16" -> 3 [] type = "i32" -> 4
      [] type \in {"i64", "isize"} -> 5 [] type = "i128" -> 6
      [] type = "u8" -> 7 [] type = "u16" -> 8 [] type = "u32" -> 9
      [] type \in {"u64", "usize"} -> 10 [] type = "u128" -> 11
ValueKindTuple == <<33>>
ManifestPayloadPrefix == <<77>>

WireTypes == IntTypes \ {"isize", "usize"}
\* The fixed-width type a value kind byte stands for.
TypeOfKind(byte) == CHOOSE type \in WireTypes : value_kind(type) = byte
IsIntKind(byte) == \E type \in WireTypes : value_kind(type) = byte

\* The two's complement of a digit string: 2^(8n) minus it, modulo 2^(8n).
TwosComplement(digits) ==
    [i \in 1..Len(digits) |->
        IF \A j \in 1..(i - 1) : digits[j] = 0
        THEN (256 - digits[i]) % 256
        ELSE 255 - digits[i]]

to_le_bytes(value) == IF value.neg THEN TwosComplement(value.mag) ELSE value.mag

from_le_bytes_unsigned(signed, bytes) == [neg |-> FALSE, mag |-> bytes]

from_le_bytes(signed, bytes) ==
    IF signed /\ bytes[Len(bytes)] >= 128
    THEN [neg |-> TRUE, mag |-> TwosComplement(bytes)]
    ELSE [neg |-> FALSE, mag |-> bytes]

\* `value as T` for integer types: the two's complement bytes are cut, or
\* extended with the sign, to the width of T and read as a T.
as_int(value, signed, width) ==
    LET bytes == to_le_bytes(value)
        fill == IF value.neg THEN 255 ELSE 0 IN
    from_le_bytes(signed, [i \in 1..width |-> IF i <= Len(bytes) THEN bytes[i] ELSE fill])

\* Encode::encode_body of the integer types
encode_body(type, value) ==
    CASE type = "i8" -> to_le_bytes(as_int(value, FALSE, 1))
      [] type = "isize" -> to_le_bytes(as_int(value, TRUE, 8))
      [] type = "usize" -> to_le_bytes(as_int(value, FALSE, 8))
      [] OTHER -> to_le_bytes(value)

DecodeOk(value, rest) == [kind |-> "Ok", value |-> value, rest |-> rest]
DecodeErr(error) == [kind |-> "Err", value |-> error, rest |-> <<>>]

\* Decode::decode_body_with_value_kind of the integer types; bytes starts after
\* the value kind byte.
decode_body_with_value_kind(type, byte, bytes, pointer_width) ==
    LET wire == IF type \in {"isize", "usize"} THEN 8 ELSE ByteWidth(type, pointer_width) IN
    IF byte # value_kind(type) THEN DecodeErr("UnexpectedValueKind")
    ELSE IF Len(bytes) < wire THEN DecodeErr("BufferUnderflow")
    ELSE LET slice == SubSeq(bytes, 1, wire)
             rest == SubSeq(bytes, wire + 1, Len(bytes)) IN
         CASE type = "i8" ->
                DecodeOk(as_int([neg |-> FALSE, mag |-> slice], TRUE, 1), rest)
           [] type = "isize" ->
                DecodeOk(as_int(from_le_bytes(TRUE, slice), TRUE, pointer_width), rest)
           [] type = "usize" ->
                DecodeOk(as_int(from_le_bytes(FALSE, slice), FALSE, pointer_width), rest)
           [] OTHER -> DecodeOk(from_le_bytes(IsSigned(type), slice), rest)

\* A manifest value: an integer with its value kind, or a tuple of values.
IntValue(type, value) == [kind |-> "Int", type |-> type, int |-> value, fields |-> <<>>]
TupleValue(items) ==
    [kind |-> "Tuple", type |-> "Tuple", int |-> [neg |-> FALSE, mag |-> <<>>],
     fields |-> items]

RECURSIVE Depth(_)
RECURSIVE FieldsDepth(_)
FieldsDepth(items) ==
    IF items = <<>> THEN 0
    ELSE LET first == Depth(Head(items))
             others == FieldsDepth(Tail(items)) IN
         IF first > others THEN first ELSE others
\* The nesting of a value: 1 for an integer, one more than its deepest field
\* for a tuple.
Depth(value) == IF value.kind = "Int" THEN 1 ELSE 1 + FieldsDepth(value.fields)

RECURSIVE encode_value(_)
RECURSIVE encode_fields(_)
encode_fields(items) ==
    IF items = <<>> THEN <<>>
    ELSE encode_value(Head(items)) \o encode_fields(Tail(items))
encode_value(value) ==
    IF value.kind = "Int"
    THEN <<value_kind(value.type)>> \o encode_body(value.type, value.int)
    ELSE ValueKindTuple \o <<Len(value.fields)>> \o encode_fields(value.fields)

RECURSIVE decode_value(_, _)
RECURSIVE decode_fields(_, _, _)
decode_fields(bytes, count, depth) ==
    IF count = 0 THEN DecodeOk(<<>>, bytes)
    ELSE LET first == decode_value(bytes, depth) IN
         IF first.kind = "Err" THEN first
         ELSE LET others == decode_fields(first.rest, count - 1, depth) IN
              IF others.kind = "Err" THEN others
              ELSE DecodeOk(<<first.value>> \o others.value, others.rest)
decode_value(bytes, depth) ==
    IF depth > MANIFEST_SBOR_V1_MAX_DEPTH THEN DecodeErr("MaxDepthExceeded")
    ELSE IF bytes = <<>> THEN DecodeErr("BufferUnderflow")
    ELSE IF <<bytes[1]>> = ValueKindTuple
    THEN IF Len(bytes) < 2 THEN DecodeErr("BufferUnderflow")
         ELSE LET items == decode_fields(SubSeq(bytes, 3, Len(bytes)), bytes[2],
                                         depth + 1) IN
              IF items.kind = "Err" THEN items
              ELSE DecodeOk(TupleValue(items.value), items.rest)
    ELSE IF IsIntKind(bytes[1])
    THEN LET type == TypeOfKind(bytes[1])
             body == decode_body_with_value_kind(type, bytes[1], Tail(bytes), 8) IN
         IF body.kind = "Err" THEN body
         ELSE DecodeOk(IntValue(type, body.value), body.rest)
    ELSE DecodeErr("UnknownValueKind")

EncodeOk(bytes) == [kind |-> "Ok", value |-> bytes]
EncodeErr(error) == [kind |-> "Err", value |-> error]

\* manifest_encode of a manifest value
manifest_encode(value) ==
    IF Depth(value) > MANIFEST_SBOR_V1_MAX_DEPTH THEN EncodeErr("MaxDepthExceeded")
    ELSE EncodeOk(ManifestPayloadPrefix \o encode_value(value))

\* decode_payload: the prefix, one value, and nothing after it
decode_payload(buf) ==
    IF buf = <<>> \/ <<buf[1]>> # ManifestPayloadPrefix
    THEN DecodeErr("InvalidPayloadPrefix")
    ELSE LET r == decode_value(Tail(buf), 1) IN
         IF r.kind = "Ok" /\ r.rest # <<>> THEN DecodeErr("ExtraTrailingBytes") ELSE r

manifest_decode(buf) == decode_payload(buf)

\* manifest_encode and manifest_decode of a Rust integer of the given type
manifest_encode_int(type, value) ==
    EncodeOk(ManifestPayloadPrefix \o <<value_kind(type)>> \o encode_body(type, value))

manifest_decode_int(type, buf, pointer_width) ==
    IF buf = <<>> \/ <<buf[1]>> # ManifestPayloadPrefix
    THEN DecodeErr("InvalidPayloadPrefix")
    ELSE IF Len(buf) < 2 THEN DecodeErr("BufferUnderflow")
    ELSE LET r == decode_body_with_value_kind(type, buf[2], SubSeq(buf, 3, Len(buf)),
                                              pointer_width) IN
         IF r.kind = "Ok" /\ r.rest # <<>> THEN DecodeErr("ExtraTrailingBytes") ELSE r

to_manifest_value(type, value) ==
    manifest_decode(manifest_encode_int(type, value).value).value

from_manifest_value(type, manifest_value, pointer_width) ==
    manifest_decode_int(type, manifest_encode(manifest_value).value, pointer_width)

\* The integers tried: every value of the one-byte types; for the wider types
\* the lowest and the highest digit run over SampleDigits and the digits
\* between are all 0 or all 255.
SampleDigits == {0, 1, 127, 128, 255}
Magnitudes(width) ==
    IF width = 1 THEN {<<d>> : d \in 0..255}
    ELSE {[i \in 1..width |-> IF i = 1 THEN low ELSE IF i = width THEN high ELSE mid] :
            low \in SampleDigits, high \in SampleDigits, mid \in {0, 255}}
IsZero(mag) == \A i \in 1..Len(mag) : mag[i] = 0
IsMinMagnitude(mag) ==
    /\ mag[Len(mag)] = 128
    /\ \A i \in 1..(Len(mag) - 1) : mag[i] = 0
\* The values of a type: the unsigned run from 0 to 2^(8n) - 1, the signed from
\* -2^(8n-1) to 2^(8n-1) - 1.
IntegersOf(type, pointer_width) ==
    LET width == ByteWidth(type, pointer_width) IN
    {[neg |-> FALSE, mag |-> mag] : mag \in
        {m \in Magnitudes(width) : IsSigned(type) => m[width] < 128}}
    \cup
    (IF IsSigned(type)
     THEN {[neg |-> TRUE, mag |-> mag] : mag \in
            {m \in Magnitudes(width) :
                /\ ~IsZero(m)
                /\ (m[width] < 128 \/ IsMinMagnitude(m))}}
     ELSE {})

One == [neg |-> FALSE, mag |-> <<1>>]
MinusOne16 == [neg |-> TRUE, mag |-> <<1, 0>>]
RECURSIVE Nest(_, _)
Nest(count, value) == IF count = 0 THEN value ELSE TupleValue(<<Nest(count - 1, value)>>)
\* The manifest values tried: integers, tuples of them, and tuples in tuples up
\* to MaxNest deep, all within the depth the codec accepts.
ManifestValues ==
    {IntValue("u8", One), IntValue("i16", MinusOne16)}
    \cup {TupleValue(<<>>),
          TupleValue(<<IntValue("u8", One), IntValue("i16", MinusOne16)>>),
          TupleValue(<<TupleValue(<<IntValue("i16", MinusOne16)>>), IntValue("u8", One)>>)}
    \cup {Nest(count, IntValue("u8", One)) : count \in 1..MaxNest}

\* The calls tried, one for each behaviour: the function and its arguments.
CodecInputs ==
    UNION {{[op |-> "input", call |-> call, type |-> type,
             pointer_width |-> pointer_width, value |-> value] :
               call \in {"integer_round_trip", "manifest_value_round_trip"},
               value \in IntegersOf(type, pointer_width)} :
            type \in IntTypes, pointer_width \in PointerWidths}
    \cup {[op |-> "input", call |-> "manifest_round_trip", type |-> "ManifestValue",
           pointer_width |-> 8, value |-> value] : value \in ManifestValues}

\* decode(encode(x)) for an integer x of a Rust type
IntegerRoundTrip ==
    /\ callLast.op = "input"
    /\ callLast.call = "integer_round_trip"
    /\ LET encoded == manifest_encode_int(callLast.type, callLast.value) IN
       callLast' = [op |-> "integer_round_trip", type |-> callLast.type,
                    value |-> callLast.value, encoded |-> encoded,
                    decoded |-> manifest_decode_int(callLast.type, encoded.value,
                                                    callLast.pointer_width)]
    /\ UNCHANGED <<resVars, authVars, feeVars, vaultVars, lockVars, dbVars, eventVars, lateVars>>

\* manifest_decode(manifest_encode(v)) for a manifest value v
ManifestRoundTrip ==
    /\ callLast.op = "input"
    /\ callLast.call = "manifest_round_trip"
    /\ LET encoded == manifest_encode(callLast.value) IN
       callLast' = [op |-> "manifest_round_trip", type |-> "ManifestValue",
                    value |-> callLast.value, encoded |-> encoded,
                    decoded |-> IF encoded.kind = "Ok"
                                THEN manifest_decode(encoded.value)
                                ELSE DecodeErr("not encoded")]
    /\ UNCHANGED <<resVars, authVars, feeVars, vaultVars, lockVars, dbVars, eventVars, lateVars>>

\* from_manifest_value(to_manifest_value(x)) for an integer x of a Rust type
ManifestValueRoundTrip ==
    /\ callLast.op = "input"
    /\ callLast.call = "manifest_value_round_trip"
    /\ LET manifest_value == to_manifest_value(callLast.type, callLast.value) IN
       callLast' = [op |-> "manifest_value_round_trip", type |-> callLast.type,
                    value |-> callLast.value, encoded |-> manifest_value,
                    decoded |-> from_manifest_value(callLast.type, manifest_value,
                                                    callLast.pointer_width)]
    /\ UNCHANGED <<resVars, authVars, feeVars, vaultVars, lockVars, dbVars, eventVars, lateVars>>

NextCodec == IntegerRoundTrip \/ ManifestRoundTrip \/ ManifestValueRoundTrip

(***************************************************************************)
(* NonFungibleId: constructors, validation, text form                      *)
(***************************************************************************)
SCRYPTO_SBOR_V1_PAYLOAD_PREFIX == <<92>>
\* ScryptoSborTypeId of String and Array, ScryptoCustomTypeId of Decimal (any
\* byte that is none of the ids validate_id accepts behaves the same).
TypeIdString == <<12>>
TypeIdArray == <<32>>
TypeIdDecimal == <<181>>

NonFungibleId(id_type, value) == [id_type |-> id_type, value |-> value]

\* scrypto_encode of the values the constructors take
scrypto_encode_int(type, value) ==
    SCRYPTO_SBOR_V1_PAYLOAD_PREFIX \o <<value_kind(type)>> \o encode_body(type, value)
scrypto_encode_decimal(value) ==
    SCRYPTO_SBOR_V1_PAYLOAD_PREFIX \o TypeIdDecimal \o to_le_bytes(value)
scrypto_encode_string(utf8) ==
    SCRYPTO_SBOR_V1_PAYLOAD_PREFIX \o TypeIdString \o <<Len(utf8)>> \o utf8

from_bytes(v) == NonFungibleId("Bytes", scrypto_encode(v))
from_u32(u) == NonFungibleId("Number", scrypto_encode_int("u32", u))
from_u64(u) == NonFungibleId("Number", scrypto_encode_int("u64", u))
from_decimal(u) == NonFungibleId("Number", scrypto_encode_decimal(u))
from_string(str) == NonFungibleId("String", scrypto_encode_string(str))
from_uuid(u) == NonFungibleId("UUID", scrypto_encode_int("u128", u))

\* validate_id: the id type of a payload, or a DecodeError
validate_id(slice) ==
    IF slice = <<>> \/ <<slice[1]>> # SCRYPTO_SBOR_V1_PAYLOAD_PREFIX
    THEN DecodeErr("InvalidPayloadPrefix")
    ELSE IF Len(slice) < 2 THEN DecodeErr("BufferUnderflow")
    ELSE LET type_id == slice[2]
             body == SubSeq(slice, 3, Len(slice))
             \* read_slice(n) and then check_end
             Exactly(n, bytes, id_type) ==
                 IF Len(bytes) < n THEN DecodeErr("BufferUnderflow")
                 ELSE IF Len(bytes) > n THEN DecodeErr("ExtraTrailingBytes")
                 ELSE DecodeOk(id_type, <<>>)
             \* read_size, read_slice(size) and then check_end
             Sized(bytes, id_type) ==
                 IF bytes = <<>> THEN DecodeErr("BufferUnderflow")
                 ELSE Exactly(bytes[1], Tail(bytes), id_type) IN
         CASE type_id = value_kind("u32") -> Exactly(4, body, "Number")
           [] type_id = value_kind("u64") -> Exactly(8, body, "Number")
           [] type_id = value_kind("u128") -> Exactly(16, body, "Number")
           [] <<type_id>> = TypeIdArray ->
                IF body = <<>> THEN DecodeErr("BufferUnderflow")
                ELSE IF body[1] = value_kind("u8") THEN Sized(Tail(body), "Bytes")
                ELSE DecodeErr("UnexpectedTypeId")
           [] <<type_id>> = TypeIdString -> Sized(body, "String")
           [] OTHER -> DecodeErr("UnexpectedTypeId")

\* TryFrom<&[u8]> for NonFungibleId
try_from(slice) ==
    LET id_type == validate_id(slice) IN
    IF id_type.kind = "Err" THEN DecodeErr("InvalidValue")
    ELSE DecodeOk(NonFungibleId(id_type.value, slice), <<>>)

\* hex::encode: two digits for a byte, the high one first; a digit is written
\* as its value, 0 to 15.
hex_encode(bytes) ==
    [i \in 1..(2 * Len(bytes)) |->
        IF i % 2 = 1 THEN bytes[(i + 1) \div 2] \div 16 ELSE bytes[i \div 2] % 16]

hex_decode(digits) ==
    IF Len(digits) % 2 = 1 THEN DecodeErr("InvalidHex")
    ELSE DecodeOk([i \in 1..(Len(digits) \div 2) |->
                    16 * digits[2 * i - 1] + digits[2 * i]], <<>>)

\* Display for NonFungibleId
to_string(id) == hex_encode(id.value)

\* FromStr for NonFungibleId
from_str(str) ==
    LET bytes == hex_decode(str) IN
    IF bytes.kind = "Err" THEN bytes ELSE try_from(bytes.value)

\* The arguments tried; a Decimal is a signed integer of 32 bytes, a string is
\* its UTF-8 bytes.
ByteArrays == {<<>>, <<53, 117>>, <<0>>, <<255, 0, 16>>}
Utf8Strings == {<<>>, <<97>>, <<97, 98, 99>>}
Decimals ==
    {[neg |-> neg, mag |-> [i \in 1..32 |-> IF i = 1 THEN low ELSE 0]] :
        neg \in BOOLEAN, low \in {1, 5, 255}}
    \cup {[neg |-> FALSE, mag |-> [i \in 1..32 |-> 0]]}

NonFungibleIdInputs ==
    {[op |-> "input", constructor |-> "from_bytes", id |-> from_bytes(v)] :
        v \in ByteArrays}
    \cup {[op |-> "input", constructor |-> "from_u32", id |-> from_u32(u)] :
        u \in IntegersOf("u32", 8)}
    \cup {[op |-> "input", constructor |-> "from_u64", id |-> from_u64(u)] :
        u \in IntegersOf("u64", 8)}
    \cup {[op |-> "input", constructor |-> "from_decimal", id |-> from_decimal(u)] :
        u \in Decimals}
    \cup {[op |-> "input", constructor |-> "from_string", id |-> from_string(str)] :
        str \in Utf8Strings}
    \cup {[op |-> "input", constructor |-> "from_uuid", id |-> from_uuid(u)] :
        u \in IntegersOf("u128", 8)}

\* An id is written out and parsed again.
ParseTextForm ==
    /\ callLast.op = "input"
    /\ callLast' = [op |-> "from_str", constructor |-> callLast.constructor,
                    id |-> callLast.id, text |-> to_string(callLast.id),
                    parsed |-> from_str(to_string(callLast.id))]
    /\ UNCHANGED <<resVars, authVars, feeVars, vaultVars, lockVars, dbVars, eventVars, lateVars>>

NextNonFungibleId == ParseTextForm

(***************************************************************************)
(* Fee locks and the track's record of a vault's substate                  *)
(***************************************************************************)
\* The vaults of the Fee component exist before the transaction; the temporary
\* vault is one a method may create.
TrackedVaults == {"vault1", "vault2", "temp_vault"}

\* What the track holds for a substate: nothing yet ("base": the substate is
\* the one of the store), a copy that was only read ("loaded"), a copy that was
\* written ("updated"), a substate the transaction created ("new"); "absent"
\* is a vault that does not exist.
TrackOk == [kind |-> "Ok"]
TrackError(name) == [kind |-> "TrackError", error |-> name]

acquire_lock_ignoring_updates(state) ==
    IF state = "new" THEN TrackError("LockUnmodifiedBaseOnNewSubstate") ELSE TrackOk

\* Track::acquire_lock with the UNMODIFIED_BASE flag, which a fee lock sets
acquire_lock_unmodified_base(state) ==
    CASE state = "new" -> TrackError("LockUnmodifiedBaseOnNewSubstate")
      [] state = "updated" -> TrackError("LockUnmodifiedBaseOnOnUpdatedSubstate")
      [] OTHER -> TrackOk

TransactionOpen == tracked.error = NoError /\ tracked.receipt = NoReceipt

\* A method creates a vault.
CreateVault ==
    /\ TransactionOpen
    /\ \E vault \in TrackedVaults :
        /\ tracked.substates[vault] = "absent"
        /\ tracked' = [tracked EXCEPT !.substates[vault] = "new"]
        /\ trackLast' = [op |-> "create", vault |-> vault, result |-> TrackOk,
                         before |-> tracked.substates[vault]]
    /\ UNCHANGED <<baseVars, rdefVars, resolveVars, bufVars, travVars>>

\* A method reads the amount of a vault.
QueryVault ==
    /\ TransactionOpen
    /\ \E vault \in TrackedVaults :
        /\ tracked.substates[vault] # "absent"
        /\ tracked' = [tracked EXCEPT !.substates[vault] =
                          IF @ = "base" THEN "loaded" ELSE @]
        /\ trackLast' = [op |-> "query", vault |-> vault, result |-> TrackOk,
                         before |-> tracked.substates[vault]]
    /\ UNCHANGED <<baseVars, rdefVars, resolveVars, bufVars, travVars>>

\* A method puts into or takes from a vault.
UpdateVault ==
    /\ TransactionOpen
    /\ \E vault \in TrackedVaults :
        /\ tracked.substates[vault] # "absent"
        /\ tracked' = [tracked EXCEPT !.substates[vault] =
                          IF @ = "new" THEN "new" ELSE "updated"]
        /\ trackLast' = [op |-> "update", vault |-> vault, result |-> TrackOk,
                         before |-> tracked.substates[vault]]
    /\ UNCHANGED <<baseVars, rdefVars, resolveVars, bufVars, travVars>>

\* A method locks a fee from a vault: the fee leaves the substate of the store,
\* so the track has to hold no change of it; an amount of 10 repays the loan.
LockFeeFromVault ==
    /\ TransactionOpen
    /\ \E vault \in TrackedVaults :
        /\ tracked.substates[vault] # "absent"
        /\ LET result == acquire_lock_unmodified_base(tracked.substates[vault]) IN
           /\ tracked' = IF result = TrackOk
                         THEN [tracked EXCEPT !.substates[vault] = "loaded",
                                              !.loan_repaid = TRUE]
                         ELSE [tracked EXCEPT !.error = result]
           /\ trackLast' = [op |-> "lock_fee", vault |-> vault, result |-> result,
                            before |-> tracked.substates[vault]]
    /\ UNCHANGED <<baseVars, rdefVars, resolveVars, bufVars, travVars>>

\* The transaction ends.
TrackFinish ==
    /\ tracked.receipt = NoReceipt
    /\ tracked' = [tracked EXCEPT !.receipt =
          IF ~tracked.loan_repaid
          THEN [kind |-> "Reject",
                error |-> IF tracked.error = NoError
                          THEN [kind |-> "LoanRepaymentFailed"]
                          ELSE [kind |-> "ErrorBeforeFeeLoanRepaid",
                                error |-> tracked.error.error]]
          ELSE IF tracked.error = NoError
          THEN [kind |-> "CommitSuccess", error |-> NoError]
          ELSE [kind |-> "CommitFailure", error |-> tracked.error]]
    /\ UNCHANGED trackLast
    /\ UNCHANGED <<baseVars, rdefVars, resolveVars, bufVars, travVars>>

NextTrack == CreateVault \/ QueryVault \/ UpdateVault \/ LockFeeFromVault \/ TrackFinish

(***************************************************************************)
(* ResourceDef: total supply and flags                                     *)
(***************************************************************************)
MaxCalls == 3
MaxQuantity == 2

\* A u64 of flags is the set of the positions of its 1 bits: `^` is the
\* symmetric difference, `|` the union. Bits 0 and 1 are resource flags, bit 2
\* is none.
FlagBits == {0, 1, 2}
ALL_FLAGS == {0, 1}
Xor(a, b) == (a \ b) \cup (b \ a)
resource_flags_are_valid(flags) == flags \subseteq ALL_FLAGS

ResourceTypes == {"Fungible", "NonFungible"}
\* ResourceAmount: a Decimal quantity (which may be negative) or a set of ids
ResourceAmounts ==
    {[kind |-> "Fungible", amount |-> a, ids |-> {}] : a \in (0 - 1)..MaxQuantity}
    \cup {[kind |-> "NonFungible", amount |-> 0, ids |-> ids] :
            ids \in (SUBSET (1..MaxQuantity)) \ {{}}}
as_quantity(amount) ==
    IF amount.kind = "Fungible" THEN amount.amount ELSE Cardinality(amount.ids)

ResourceDefOk(def) == [result |-> "Ok", def |-> def]
ResourceDefErr(error, def) == [result |-> error, def |-> def]

ResourceDef_mint(def, amount) ==
    IF def.resource_type = amount.kind
    THEN ResourceDefOk([def EXCEPT !.total_supply = @ + as_quantity(amount)])
    ELSE ResourceDefErr("ResourceTypeNotMatching", def)

ResourceDef_burn_unmatched(def, amount) ==
    ResourceDefOk([def EXCEPT !.total_supply = @ - as_quantity(amount)])

ResourceDef_burn(def, amount) ==
    IF def.resource_type = amount.kind
    THEN ResourceDefOk([def EXCEPT !.total_supply = @ - as_quantity(amount)])
    ELSE ResourceDefErr("ResourceTypeNotMatching", def)

update_mutable_flags(def, new_mutable_flags) ==
    LET changed == Xor(def.mutable_flags, new_mutable_flags) IN
    IF ~resource_flags_are_valid(changed)
    THEN ResourceDefErr("InvalidResourceFlags", def)
    ELSE IF def.mutable_flags \cup changed # def.mutable_flags
    THEN ResourceDefErr("InvalidFlagUpdate", def)
    ELSE ResourceDefOk([def EXCEPT !.mutable_flags = new_mutable_flags])

update_flags_unchecked(def, new_flags) ==
    LET changed == Xor(def.flags, new_flags) IN
    IF ~resource_flags_are_valid(changed)
    THEN ResourceDefErr("InvalidResourceFlags", def)
    ELSE ResourceDefOk([def EXCEPT !.flags = new_flags])

update_flags(def, new_flags) ==
    LET changed == Xor(def.flags, new_flags) IN
    IF ~resource_flags_are_valid(changed)
    THEN ResourceDefErr("InvalidResourceFlags", def)
    ELSE IF def.mutable_flags \cup changed # def.mutable_flags
    THEN ResourceDefErr("InvalidFlagUpdate", def)
    ELSE ResourceDefOk([def EXCEPT !.flags = new_flags])

\* One call on the ResourceDef; the history keeps the sums of what the
\* successful mints and burns moved.
ResourceDefCall(op, arg, r, minted_now, burned_now) ==
    /\ rdefLast.calls < MaxCalls
    /\ resource_def' = r.def
    /\ minted' = minted + minted_now
    /\ burned' = burned + burned_now
    /\ rdefLast' = [op |-> op, arg |-> arg, result |-> r.result, before |-> resource_def,
                    calls |-> rdefLast.calls + 1]
    /\ UNCHANGED created_supply
    /\ UNCHANGED <<baseVars, trackVars, resolveVars, bufVars, travVars>>

Mint ==
    \E amount \in ResourceAmounts :
        LET r == ResourceDef_mint(resource_def, amount) IN
        ResourceDefCall("mint", amount, r,
                        IF r.result = "Ok" THEN as_quantity(amount) ELSE 0, 0)

Burn ==
    \E amount \in ResourceAmounts :
        LET r == ResourceDef_burn(resource_def, amount) IN
        ResourceDefCall("burn", amount, r, 0,
                        IF r.result = "Ok" THEN as_quantity(amount) ELSE 0)

UpdateFlags ==
    \E new_flags \in SUBSET FlagBits :
        ResourceDefCall("update_flags", new_flags,
                        update_flags(resource_def, new_flags), 0, 0)

UpdateMutableFlags ==
    \E new_mutable_flags \in SUBSET FlagBits :
        ResourceDefCall("update_mutable_flags", new_mutable_flags,
                        update_mutable_flags(resource_def, new_mutable_flags), 0, 0)

NextSupply == Mint \/ Burn
NextFlags == UpdateFlags \/ UpdateMutableFlags

(***************************************************************************)
(* ScryptoRuntime: the buffers handed to the WASM code                     *)
(***************************************************************************)
\* The number of allocate_buffer calls followed in one runtime.
MaxBuffers == 3

\* The byte vectors a buffer is given.
BufferContents == {<<>>, <<7>>, <<7, 9>>}

\* The ids the WASM code may ask for: the ids that can have been allocated and
\* one that never is.
BufferIds == 0..MaxBuffers

BufferNotFound(buffer_id) == [kind |-> "BufferNotFound", buffer_id |-> buffer_id]

\* BTreeMap::insert / BTreeMap::remove on the map of buffers.
BufferInsert(map, id, buffer) ==
    [k \in DOMAIN map \cup {id} |-> IF k = id THEN buffer ELSE map[k]]

BufferRemove(map, id) == [k \in DOMAIN map \ {id} |-> map[k]]

\* allocate_buffer: the runtime afterwards and the Buffer returned.
allocate_buffer(map, next_id, buffer) ==
    LET id == next_id
        len == Len(buffer)
    IN  [buffers |-> BufferInsert(map, id, buffer),
         next_buffer_id |-> next_id + 1,
         result |-> [id |-> id, len |-> len]]

\* The buffer is read and left in the map.
consume_buffer_kept(map, buffer_id) ==
    IF buffer_id \in DOMAIN map
    THEN [buffers |-> map, result |-> "Ok", bytes |-> map[buffer_id], error |-> NoError]
    ELSE [buffers |-> map, result |-> "Err", bytes |-> <<>>,
          error |-> BufferNotFound(buffer_id)]

\* consume_buffer: self.buffers.remove(&buffer_id).ok_or(BufferNotFound(buffer_id))
consume_buffer(map, buffer_id) ==
    IF buffer_id \in DOMAIN map
    THEN [buffers |-> BufferRemove(map, buffer_id), result |-> "Ok",
          bytes |-> map[buffer_id], error |-> NoError]
    ELSE [buffers |-> map, result |-> "Err", bytes |-> <<>>,
          error |-> BufferNotFound(buffer_id)]

\* `allocated` keeps, per call of allocate_buffer, the id returned, the bytes
\* given and the number of consume_buffer calls that returned Ok for that id.
AllocateBuffer ==
    /\ next_buffer_id < MaxBuffers
    /\ \E buffer \in BufferContents :
          LET r == allocate_buffer(buffers, next_buffer_id, buffer) IN
          /\ buffers' = r.buffers
          /\ next_buffer_id' = r.next_buffer_id
          /\ allocated' = Append(allocated, [id |-> r.result.id, bytes |-> buffer,
                                             taken |-> 0])
          /\ bufLast' = [op |-> "allocate_buffer", arg |-> buffer, result |-> "Ok",
                         id |-> r.result.id, len |-> r.result.len,
                         before |-> buffers, allocated_before |-> allocated]
    /\ UNCHANGED <<baseVars, trackVars, rdefVars, resolveVars, travVars>>

ConsumeBuffer ==
    /\ \E buffer_id \in BufferIds :
          LET r == consume_buffer(buffers, buffer_id) IN
          /\ buffers' = r.buffers
          /\ allocated' = [i \in 1..Len(allocated) |->
                             IF r.result = "Ok" /\ allocated[i].id = buffer_id
                             THEN [allocated[i] EXCEPT !.taken = @ + 1]
                             ELSE allocated[i]]
          /\ bufLast' = [op |-> "consume_buffer", arg |-> buffer_id,
                         result |-> r.result, bytes |-> r.bytes, error |-> r.error,
                         before |-> buffers, allocated_before |-> allocated]
    /\ UNCHANGED next_buffer_id
    /\ UNCHANGED <<baseVars, trackVars, rdefVars, resolveVars, travVars>>

NextBuffers == AllocateBuffer \/ ConsumeBuffer

(***************************************************************************)
(* Typed traverser: the container stack next to the untyped traverser      *)
(***************************************************************************)
\* The nesting depth of the payloads followed.
MaxTravDepth == 3

\* The schema: LocalTypeIndex -> TypeKind.
TypeIndexes ==
    {"Any", "U8", "String", "Pair", "Wrap", "Option", "List", "Dict", "Nest"}

Schema ==
    [t \in TypeIndexes |->
        CASE t = "Any" -> [kind |-> "Any"]
          [] t = "U8" -> [kind |-> "U8"]
          [] t = "String" -> [kind |-> "String"]
          [] t = "Pair" -> [kind |-> "Tuple", field_types |-> <<"U8", "String">>]
          [] t = "Wrap" -> [kind |-> "Tuple", field_types |-> <<"Pair">>]
          [] t = "Option" -> [kind |-> "Enum",
                              variants |-> (0 :> <<>>) @@ (1 :> <<"Pair">>)]
          [] t = "List" -> [kind |-> "Array", element_type |-> "Pair"]
          [] t = "Dict" -> [kind |-> "Map", key_type |-> "U8", value_type |-> "Pair"]
          [] t = "Nest" -> [kind |-> "Tuple", field_types |-> <<"List", "Dict">>]]

\* schema.resolve_type_kind: every index of the schema resolves.
resolve_type_kind(type_index) == Schema[type_index]

\* The types a payload is traversed against.
RootTypes == {"Any", "Pair", "Wrap", "Option", "List", "Dict", "Nest"}

\* The container headers and the value kinds of terminal values of a payload.
TupleHeader(n) == [value_kind |-> "Tuple", length |-> n]
EnumVariantHeader(v, n) == [value_kind |-> "Enum", variant |-> v, length |-> n]
ArrayHeader(element_value_kind, n) ==
    [value_kind |-> "Array", element_value_kind |-> element_value_kind, length |-> n]
MapHeader(key_value_kind, value_value_kind, n) ==
    [value_kind |-> "Map", key_value_kind |-> key_value_kind,
     value_value_kind |-> value_value_kind, length |-> n]

ContainerHeaders ==
    {TupleHeader(0), TupleHeader(1), TupleHeader(2),
     EnumVariantHeader(0, 0), EnumVariantHeader(1, 1), EnumVariantHeader(1, 0),
     EnumVariantHeader(2, 0),
     ArrayHeader("U8", 0), ArrayHeader("Tuple", 1),
     MapHeader("U8", "Tuple", 1), MapHeader("String", "Tuple", 0)}

TerminalValueKinds == {"U8", "String"}

\* The number of child values below a header: a map entry is two values.
ChildCount(header) ==
    IF header.value_kind = "Map" THEN 2 * header.length ELSE header.length

\* The value kind the untyped traverser lets the next child of `parent` have:
\* the element kinds of an array or a map come from its header.
ChildKindAllowed(parent, kind_of_value) ==
    CASE parent.container_header.value_kind = "Array" ->
            kind_of_value = parent.container_header.element_value_kind
      [] parent.container_header.value_kind = "Map" ->
            kind_of_value = IF parent.next_child_index % 2 = 0
                         THEN parent.container_header.key_value_kind
                         ELSE parent.container_header.value_value_kind
      [] OTHER -> TRUE

\* One step of the untyped traverser from its ancestor path: the event, the
\* ancestor path of the event's location and the ancestor path afterwards. A
\* frame is [container_header, next_child_index]; `started` keeps, for the
\* properties, what the typed traverser made of the container's start.
ChildEvents(path) ==
    LET n == Len(path)
        counted == IF n = 0 THEN path
                   ELSE [path EXCEPT ![n].next_child_index = @ + 1]
        allowed(k) == n = 0 \/ ChildKindAllowed(path[n], k)
    IN  {[event |-> "ContainerStart", header |-> h, location |-> counted,
          after |-> Append(counted, [container_header |-> h, next_child_index |-> 0,
                                     started |-> "none"])] :
            h \in {x \in ContainerHeaders :
                      /\ allowed(x.value_kind)
                      /\ (n + 1 = MaxTravDepth => ChildCount(x) = 0)}}
        \cup
        {[event |-> "TerminalValue", header |-> [value_kind |-> k],
          location |-> counted, after |-> counted] :
            k \in {x \in TerminalValueKinds : allowed(x)}}

UntypedEvents(path, root_done) ==
    IF Len(path) = 0
    THEN IF root_done
         THEN {[event |-> "End", header |-> [value_kind |-> "none"],
                location |-> path, after |-> path]}
         ELSE ChildEvents(path)
    ELSE LET parent == path[Len(path)] IN
         IF parent.next_child_index < ChildCount(parent.container_header)
         THEN ChildEvents(path)
         ELSE {[event |-> "ContainerEnd", header |-> parent.container_header,
                location |-> SubSeq(path, 1, Len(path) - 1),
                after |-> SubSeq(path, 1, Len(path) - 1)]}

\* ContainerType and its accessors.
ContainerType_Tuple(i, types) == [type |-> "Tuple", self_type |-> i, child_types |-> types]
ContainerType_EnumVariant(i, types) ==
    [type |-> "EnumVariant", self_type |-> i, child_types |-> types]
ContainerType_Array(i, child_type) ==
    [type |-> "Array", self_type |-> i, child_type |-> child_type]
ContainerType_Map(i, key_type, value_type) ==
    [type |-> "Map", self_type |-> i, key_type |-> key_type, value_type |-> value_type]
ContainerType_Any(i) == [type |-> "Any", self_type |-> i]

NoTypeIndex == "none"

get_child_type_for_element(container, index) ==
    CASE container.type \in {"Tuple", "EnumVariant"} ->
            IF index < Len(container.child_types)
            THEN container.child_types[index + 1] ELSE NoTypeIndex
      [] container.type = "Array" -> container.child_type
      [] container.type = "Any" -> "Any"
      [] OTHER -> NoTypeIndex

get_child_type_for_map_key(container) ==
    CASE container.type = "Map" -> container.key_type
      [] container.type = "Any" -> "Any"
      [] OTHER -> NoTypeIndex

get_child_type_for_map_value(container) ==
    CASE container.type = "Map" -> container.value_type
      [] container.type = "Any" -> "Any"
      [] OTHER -> NoTypeIndex

\* get_type_index: the type of the value at `location`, or NoTypeIndex where
\* the code panics (unwrap of the last container of an empty stack, expect of
\* a child type that is None).
get_type_index(container_stack, location, root_type_index) ==
    IF Len(location) = 0 THEN root_type_index
    ELSE LET container_child == location[Len(location)]
             current_child_index == container_child.next_child_index - 1
         IN  IF Len(container_stack) = 0 THEN NoTypeIndex
             ELSE LET last == container_stack[Len(container_stack)] IN
                  IF container_child.container_header.value_kind = "Map"
                  THEN IF current_child_index % 2 = 0
                       THEN get_child_type_for_map_key(last)
                       ELSE get_child_type_for_map_value(last)
                  ELSE get_child_type_for_element(last, current_child_index)

\* Every value kind is taken to match every type kind.
value_kind_matches_every_type_kind(kind_of_value, type_kind) == TRUE

value_kind_matches_type_kind(kind_of_value, type_kind) ==
    IF type_kind.kind = "Any" THEN TRUE
    ELSE CASE type_kind.kind = "U8" -> kind_of_value = "U8"
           [] type_kind.kind = "String" -> kind_of_value = "String"
           [] type_kind.kind = "Array" -> kind_of_value = "Array"
           [] type_kind.kind = "Tuple" -> kind_of_value = "Tuple"
           [] type_kind.kind = "Enum" -> kind_of_value = "Enum"
           [] type_kind.kind = "Map" -> kind_of_value = "Map"

TypedEvent(event, type_index, error, container_stack) ==
    [event |-> event, type_index |-> type_index, error |-> error,
     container_stack |-> container_stack]

TypeMismatch(name, type_index) == [kind |-> name, type_index |-> type_index]

MismatchingType(type_index, container_type, actual_value_kind) ==
    [kind |-> "MismatchingType", type_index |-> type_index,
     expected_type_kind |-> container_type.kind,
     actual_value_kind |-> actual_value_kind]

\* A header that does not match its type is pushed as a container of any type.
map_container_start_event_pushing(container_stack, type_index, header) ==
    TypedEvent("ContainerStart", type_index, NoError,
               Append(container_stack, ContainerType_Any(type_index)))

\* map_container_start_event: the typed event and the container stack afterwards.
map_container_start_event(container_stack, type_index, header) ==
    LET container_type == resolve_type_kind(type_index)
        pushed(c) == TypedEvent("ContainerStart", type_index, NoError,
                                Append(container_stack, c))
        mismatch(e) == TypedEvent("Error", type_index, e, container_stack)
        other == mismatch(MismatchingType(type_index, container_type, header.value_kind))
    IN  CASE header.value_kind = "Tuple" ->
                IF container_type.kind = "Any" THEN pushed(ContainerType_Any(type_index))
                ELSE IF container_type.kind = "Tuple"
                THEN IF Len(container_type.field_types) = header.length
                     THEN pushed(ContainerType_Tuple(type_index, container_type.field_types))
                     ELSE mismatch(TypeMismatch("MismatchingTupleLength", type_index))
                ELSE other
          [] header.value_kind = "Enum" ->
                IF container_type.kind = "Any" THEN pushed(ContainerType_Any(type_index))
                ELSE IF container_type.kind = "Enum"
                THEN IF header.variant \in DOMAIN container_type.variants
                     THEN LET variant_child_types == container_type.variants[header.variant]
                          IN  IF Len(variant_child_types) = header.length
                              THEN pushed(ContainerType_EnumVariant(type_index,
                                                                    variant_child_types))
                              ELSE mismatch(TypeMismatch("MismatchingEnumVariantLength",
                                                         type_index))
                     ELSE mismatch(TypeMismatch("UnknownEnumVariant", type_index))
                ELSE other
          [] header.value_kind = "Array" ->
                IF container_type.kind = "Any" THEN pushed(ContainerType_Any(type_index))
                ELSE IF container_type.kind = "Array"
                THEN LET element_type == resolve_type_kind(container_type.element_type) IN
                     IF ~value_kind_matches_type_kind(header.element_value_kind, element_type)
                     THEN mismatch(TypeMismatch("MismatchingChildElementType",
                                                container_type.element_type))
                     ELSE pushed(ContainerType_Array(type_index, container_type.element_type))
                ELSE other
          [] header.value_kind = "Map" ->
                IF container_type.kind = "Any" THEN pushed(ContainerType_Any(type_index))
                ELSE IF container_type.kind = "Map"
                THEN LET key_type == resolve_type_kind(container_type.key_type)
                         value_type == resolve_type_kind(container_type.value_type)
                     IN  IF ~value_kind_matches_type_kind(header.key_value_kind, key_type)
                         THEN mismatch(TypeMismatch("MismatchingChildKeyType",
                                                    container_type.key_type))
                         ELSE IF ~value_kind_matches_type_kind(header.value_value_kind,
                                                               value_type)
                         THEN mismatch(TypeMismatch("MismatchingChildValueType",
                                                    container_type.value_type))
                         ELSE pushed(ContainerType_Map(type_index, container_type.key_type,
                                                       container_type.value_type))
                ELSE other

map_terminal_value_event(container_stack, type_index, kind_of_value) ==
    LET type_kind == resolve_type_kind(type_index) IN
    IF ~value_kind_matches_type_kind(kind_of_value, type_kind)
    THEN TypedEvent("Error", type_index,
                    MismatchingType(type_index, type_kind, kind_of_value), container_stack)
    ELSE TypedEvent("TerminalValue", type_index, NoError, container_stack)

\* The thread panics: the traverser is gone.
Panic(container_stack) == TypedEvent("panic", NoTypeIndex, NoError, container_stack)

\* map_container_end_event: self.container_stack.pop().unwrap()
map_container_end_event(container_stack) ==
    IF Len(container_stack) = 0 THEN Panic(container_stack)
    ELSE TypedEvent("ContainerEnd", container_stack[Len(container_stack)].self_type,
                    NoError, SubSeq(container_stack, 1, Len(container_stack) - 1))

\* next_event_internal: the typed event for one event of the untyped traverser.
next_event_internal(container_stack, root_type_index, untyped) ==
    CASE untyped.event \in {"ContainerStart", "TerminalValue"} ->
            LET type_index == get_type_index(container_stack, untyped.location,
                                             root_type_index)
            IN  IF type_index = NoTypeIndex THEN Panic(container_stack)
                ELSE IF untyped.event = "ContainerStart"
                THEN map_container_start_event(container_stack, type_index, untyped.header)
                ELSE map_terminal_value_event(container_stack, type_index,
                                              untyped.header.value_kind)
      [] untyped.event = "ContainerEnd" -> map_container_end_event(container_stack)
      [] OTHER -> TypedEvent("End", NoTypeIndex, NoError, container_stack)

\* next_event: the inner traverser moves on, whatever the typed traverser
\* returned for the events before; only End and a panic stop the traversal.
TraverserNextEvent ==
    /\ traverser.status = "running"
    /\ \E untyped \in UntypedEvents(traverser.ancestor_path, traverser.root_done) :
          LET typed == next_event_internal(traverser.container_stack,
                                           traverser.root_type_index, untyped)
              n == Len(untyped.after)
              path == IF untyped.event = "ContainerStart"
                      THEN [untyped.after EXCEPT ![n].started =
                               IF typed.event = "ContainerStart"
                               THEN typed.type_index ELSE typed.event]
                      ELSE untyped.after
          IN  /\ traverser' = [traverser EXCEPT
                                  !.ancestor_path = path,
                                  !.container_stack = typed.container_stack,
                                  !.root_done = TRUE,
                                  !.status = CASE typed.event = "panic" -> "panicked"
                                               [] typed.event = "End" -> "ended"
                                               [] OTHER -> "running"]
              /\ travLast' = [op |-> untyped.event, header |-> untyped.header,
                              event |-> typed.event, type_index |-> typed.type_index,
                              error |-> typed.error,
                              before |-> traverser.container_stack,
                              path_before |-> traverser.ancestor_path]
    /\ UNCHANGED <<baseVars, trackVars, rdefVars, resolveVars, bufVars>>

NextTraverser == TraverserNextEvent

(***************************************************************************)
(* Auth module: the substate locks taken while a callee's rule is resolved *)
(***************************************************************************)
\* The number of before_push_frame calls followed.
MaxResolves == 3

\* The kernel's lock table as far as the auth module sees it: the handles held
\* and the next handle the kernel hands out.
Kernel(held, next) == [held |-> held, next |-> next]

kernel_lock_substate(k, node_id, module_id, key) ==
    Kernel(k.held \cup {[handle |-> k.next, node_id |-> node_id,
                         module_id |-> module_id, key |-> key]},
           k.next + 1)

kernel_drop_lock(k, handle) == Kernel({l \in k.held : l.handle # handle}, k.next)

Resolved(k) == [kernel |-> k, result |-> "Ok", error |-> "none"]
ResolveErr(k, error) == [kernel |-> k, result |-> "Err", error |-> error]

\* The packages a function is called on, and its blueprint and ident.
FunctionIdentifiers ==
    {<<"PACKAGE_PACKAGE", "PACKAGE_BLUEPRINT", "PACKAGE_PUBLISH_NATIVE_IDENT">>,
     <<"PACKAGE_PACKAGE", "PACKAGE_BLUEPRINT", "publish_wasm">>,
     <<"FAUCET_PACKAGE", "Faucet", "new">>}

\* function_auth: a package other than PACKAGE_PACKAGE has its function access
\* rules read under a read lock.
function_auth_locks(k, identifier) ==
    IF identifier[1] = "PACKAGE_PACKAGE"
    THEN Resolved(k)
    ELSE LET k1 == kernel_lock_substate(k, identifier[1], "ObjectState",
                                        "Package::FunctionAccessRules")
         IN  Resolved(k1)

\* method_authorization_stateless
method_authorization_stateless(k, receiver, module_id) ==
    LET handle == k.next
        k1 == kernel_lock_substate(k, receiver, module_id, "AccessRules::AccessRules")
        k2 == kernel_drop_lock(k1, handle)
    IN  Resolved(k2)

\* method_authorization_stateful: `has_state_schema` is whether the blueprint's
\* schema.substates.get(0) is Some.
method_authorization_stateful(k, receiver, module_id, type_info, has_state_schema) ==
    IF type_info = "KeyValueStore" THEN ResolveErr(k, "NotAnObject")
    ELSE LET package_handle == k.next
             k1 == kernel_lock_substate(k, "package", "ObjectState", "Package::Package")
         IN  IF ~has_state_schema
             THEN method_authorization_stateless(k1, receiver, module_id)
             ELSE LET k2 == kernel_drop_lock(k1, package_handle)
                      state_handle == k2.next
                      k3 == kernel_lock_substate(k2, receiver, "ObjectState",
                                                 "Component::Component")
                      k4 == kernel_drop_lock(k3, state_handle)
                      handle == k4.next
                      k5 == kernel_lock_substate(k4, receiver, module_id,
                                                 "AccessRules::AccessRules")
                      k6 == kernel_drop_lock(k5, handle)
                  IN  Resolved(k6)

\* method_auth, as to the locks: `call` is the method identifier with what the
\* kernel knows of the receiver.
method_auth_locks(k, call) ==
    IF call.module_id \in {"AccessRules", "AccessRules1"}
    THEN Resolved(k)
    ELSE IF call.node_id = "Object"
    THEN IF call.type_info = <<"RESOURCE_MANAGER_PACKAGE", "VAULT_BLUEPRINT">>
         THEN IF call.visibility = "NotVisible" THEN ResolveErr(k, "RENodeNotVisible")
              ELSE LET vault_handle == k.next
                       k1 == kernel_lock_substate(k, "Object", "ObjectState", "Vault::Vault")
                       k2 == kernel_drop_lock(k1, vault_handle)
                   IN  IF call.visibility = "Normal"
                       THEN method_authorization_stateless(k2, "resource", "AccessRules1")
                       ELSE LET handle == k2.next
                                k3 == kernel_lock_substate(k2, "resource", "AccessRules1",
                                                           "AccessRules::AccessRules")
                            IN  IF /\ call.module_id = "ObjectState"
                                   /\ call.ident \in {"VAULT_RECALL_IDENT",
                                                      "VAULT_RECALL_NON_FUNGIBLES_IDENT"}
                                THEN Resolved(kernel_drop_lock(k3, handle))
                                ELSE ResolveErr(k3, "VisibilityError")
         ELSE Resolved(k)
    ELSE IF call.node_id = "GlobalObject::Component::Normal" /\ call.module_id = "ObjectState"
    THEN method_authorization_stateful(k, call.node_id, "AccessRules", "Object",
                                       call.has_state_schema)
    ELSE method_authorization_stateless(k, call.node_id, "AccessRules")

\* The callees of before_push_frame.
MethodCalls ==
    [identifier : {"Method"}, node_id : ReceiverNodes, module_id : {"ObjectState", "AccessRules1"},
     ident : {"VAULT_RECALL_IDENT", "take"}, type_info : TypeInfos,
     visibility : Visibilities, has_state_schema : BOOLEAN]
FunctionCalls == [identifier : {"Function"}, function : FunctionIdentifiers]
ResolveCallees == MethodCalls \cup FunctionCalls \cup {[identifier |-> "VirtualLazyLoad"]}

\* before_push_frame, as to the locks: the rule is resolved and then verified;
\* `verified` is the outcome of the verification, which holds no lock over its
\* return.
before_push_frame_locks(k, callee, verified) ==
    IF callee.identifier = "VirtualLazyLoad" THEN Resolved(k)
    ELSE LET authorization ==
                IF callee.identifier = "Method"
                THEN method_auth_locks(k, callee)
                ELSE function_auth_locks(k, callee.function)
         IN  IF authorization.result # "Ok" THEN authorization
             ELSE IF ~verified THEN ResolveErr(authorization.kernel, "Unauthorized")
             ELSE authorization

BeforePushFrame ==
    /\ resolveLast.calls < MaxResolves
    /\ \E callee \in ResolveCallees, verified \in BOOLEAN :
          LET r == before_push_frame_locks(Kernel(held_locks, resolveLast.next),
                                           callee, verified)
          IN  /\ held_locks' = r.kernel.held
              /\ resolveLast' = [op |-> "before_push_frame", callee |-> callee,
                                 result |-> r.result, error |-> r.error,
                                 before |-> held_locks, next |-> r.kernel.next,
                                 calls |-> resolveLast.calls + 1]
    /\ UNCHANGED <<baseVars, trackVars, rdefVars, bufVars, travVars>>

NextResolve == BeforePushFrame

(***************************************************************************)
(* Specifications                                                          *)
(***************************************************************************)
ParkedBalances == [v \in Vaults |-> 0]
ParkedZones == [n \in 1..MaxNodes |-> NoZone]
ParkedParams == [initial_proofs |-> {}, virtual_resources |-> {}]
InitialStore == [v \in Vaults |-> IF v = "empty" THEN 0 ELSE MaxBalance]

\* The containers of one resource, fungible or non-fungible, in one container.
InitResource ==
    /\ vault_liquid = 0 /\ vault_frozen = {} /\ vault_was_frozen = FALSE /\ vaultLast = NoOp
    /\ locked_handles = {} /\ next_handle = 0 /\ lock_depth = 0 /\ fields = ParkedFields
    /\ lockLast = NoOp
    /\ substates = <<>> /\ last_update = NeverUpdated /\ db_before = <<>>
    /\ db_updates = <<>> /\ db_pending = <<>> /\ db_pc = "idle" /\ db_count = 0
    /\ db_seen = NoOp
    /\ callLast = NoOp
    /\ event_store = <<>> /\ emit_log = <<>> /\ event_error = NoError
    /\ event_receipt = NoReceipt /\ eventLast = NoOp
    /\ tracked = <<>> /\ trackLast = NoOp
    /\ resource_def = NoOp /\ created_supply = 0 /\ minted = 0 /\ burned = 0
    /\ rdefLast = NoOp
    /\ held_locks = {} /\ resolveLast = NoOp
    /\ buffers = <<>> /\ next_buffer_id = 0 /\ allocated = <<>> /\ bufLast = NoOp
    /\ traverser = NoOp /\ travLast = NoOp
    /\ kind \in {"fungible", "nonfungible"}
    /\ divisibility \in IF kind = "fungible" THEN Divisibilities ELSE {0}
    /\ fungible \in IF kind = "fungible"
                    THEN {<<a>> : a \in {b \in 0..MaxAmount :
                                            check_amount(b, divisibility) = "Ok"}}
                    ELSE {<<>>}
    /\ nonFungible \in IF kind = "nonfungible" THEN {<<S>> : S \in SUBSET Ids} ELSE {<<>>}
    /\ total0 = IF kind = "fungible" THEN SumSeq(fungible) ELSE SumCard(nonFungible)
    /\ resLast = NoOp
    /\ auth_zone_stack = <<>> /\ auth_zones = ParkedZones /\ frames = <<>>
    /\ next_node_id = 1 /\ auth_phase = "parked" /\ params = ParkedParams
    /\ authLast = NoOp
    /\ store = ParkedBalances /\ store0 = ParkedBalances /\ track = ParkedBalances
    /\ worktop = 0 /\ bucket = 0 /\ consumed = 0 /\ locked_fees = <<>>
    /\ cost_unit_price = 0 /\ tip_percentage = 0 /\ transferred = ParkedBalances
    /\ receipt = NoReceipt /\ feeLast = NoOp

SpecResource == InitResource /\ [][NextResource]_vars

\* The auth module as constructed, before on_init.
InitAuth ==
    /\ vault_liquid = 0 /\ vault_frozen = {} /\ vault_was_frozen = FALSE /\ vaultLast = NoOp
    /\ locked_handles = {} /\ next_handle = 0 /\ lock_depth = 0 /\ fields = ParkedFields
    /\ lockLast = NoOp
    /\ substates = <<>> /\ last_update = NeverUpdated /\ db_before = <<>>
    /\ db_updates = <<>> /\ db_pending = <<>> /\ db_pc = "idle" /\ db_count = 0
    /\ db_seen = NoOp
    /\ callLast = NoOp
    /\ event_store = <<>> /\ emit_log = <<>> /\ event_error = NoError
    /\ event_receipt = NoReceipt /\ eventLast = NoOp
    /\ tracked = <<>> /\ trackLast = NoOp
    /\ resource_def = NoOp /\ created_supply = 0 /\ minted = 0 /\ burned = 0
    /\ rdefLast = NoOp
    /\ held_locks = {} /\ resolveLast = NoOp
    /\ buffers = <<>> /\ next_buffer_id = 0 /\ allocated = <<>> /\ bufLast = NoOp
    /\ traverser = NoOp /\ travLast = NoOp
    /\ auth_zone_stack = <<>> /\ auth_zones = ParkedZones /\ frames = <<>>
    /\ next_node_id = 1 /\ auth_phase = "new"
    /\ params \in {[initial_proofs |-> {}, virtual_resources |-> {}],
                   [initial_proofs |-> {Badge("badge1")},
                    virtual_resources |-> {Badge("badge2")}]}
    /\ authLast = NoOp
    /\ kind = "parked" /\ divisibility = 0
    /\ fungible = <<>> /\ nonFungible = <<>> /\ total0 = 0
    /\ resLast = NoOp
    /\ store = ParkedBalances /\ store0 = ParkedBalances /\ track = ParkedBalances
    /\ worktop = 0 /\ bucket = 0 /\ consumed = 0 /\ locked_fees = <<>>
    /\ cost_unit_price = 0 /\ tip_percentage = 0 /\ transferred = ParkedBalances
    /\ receipt = NoReceipt /\ feeLast = NoOp

SpecAuth == InitAuth /\ [][NextAuth]_vars
SpecProof == InitAuth /\ [][NextProof]_vars

\* A transaction starts: the store holds the funded accounts, the reserve is new.
InitFee ==
    /\ vault_liquid = 0 /\ vault_frozen = {} /\ vault_was_frozen = FALSE /\ vaultLast = NoOp
    /\ locked_handles = {} /\ next_handle = 0 /\ lock_depth = 0 /\ fields = ParkedFields
    /\ lockLast = NoOp
    /\ substates = <<>> /\ last_update = NeverUpdated /\ db_before = <<>>
    /\ db_updates = <<>> /\ db_pending = <<>> /\ db_pc = "idle" /\ db_count = 0
    /\ db_seen = NoOp
    /\ callLast = NoOp
    /\ event_store = <<>> /\ emit_log = <<>> /\ event_error = NoError
    /\ event_receipt = NoReceipt /\ eventLast = NoOp
    /\ tracked = <<>> /\ trackLast = NoOp
    /\ resource_def = NoOp /\ created_supply = 0 /\ minted = 0 /\ burned = 0
    /\ rdefLast = NoOp
    /\ held_locks = {} /\ resolveLast = NoOp
    /\ buffers = <<>> /\ next_buffer_id = 0 /\ allocated = <<>> /\ bufLast = NoOp
    /\ traverser = NoOp /\ travLast = NoOp
    /\ store0 = InitialStore /\ store = InitialStore /\ track = InitialStore
    /\ worktop = 0 /\ bucket = 0 /\ consumed = 0 /\ locked_fees = <<>>
    /\ \E pt \in PriceAndTip : cost_unit_price = pt[1] /\ tip_percentage = pt[2]
    /\ transferred = ParkedBalances
    /\ receipt = NoReceipt /\ feeLast = NoOp
    /\ kind = "parked" /\ divisibility = 0
    /\ fungible = <<>> /\ nonFungible = <<>> /\ total0 = 0
    /\ resLast = NoOp
    /\ auth_zone_stack = <<>> /\ auth_zones = ParkedZones /\ frames = <<>>
    /\ next_node_id = 1 /\ auth_phase = "parked" /\ params = ParkedParams
    /\ authLast = NoOp

SpecFee == InitFee /\ [][NextFee]_vars

\* A vault as created: some amount in it, no operation frozen.
InitVault ==
    /\ vault_liquid \in VaultAmounts /\ vault_frozen = VaultFrozenFlag_default
    /\ vault_was_frozen = FALSE /\ vaultLast = NoOp
    /\ locked_handles = {} /\ next_handle = 0 /\ lock_depth = 0 /\ fields = ParkedFields
    /\ lockLast = NoOp
    /\ substates = <<>> /\ last_update = NeverUpdated /\ db_before = <<>>
    /\ db_updates = <<>> /\ db_pending = <<>> /\ db_pc = "idle" /\ db_count = 0
    /\ db_seen = NoOp
    /\ callLast = NoOp
    /\ event_store = <<>> /\ emit_log = <<>> /\ event_error = NoError
    /\ event_receipt = NoReceipt /\ eventLast = NoOp
    /\ tracked = <<>> /\ trackLast = NoOp
    /\ resource_def = NoOp /\ created_supply = 0 /\ minted = 0 /\ burned = 0
    /\ rdefLast = NoOp
    /\ held_locks = {} /\ resolveLast = NoOp
    /\ buffers = <<>> /\ next_buffer_id = 0 /\ allocated = <<>> /\ bufLast = NoOp
    /\ traverser = NoOp /\ travLast = NoOp
    /\ kind = "parked" /\ divisibility = 0
    /\ fungible = <<>> /\ nonFungible = <<>> /\ total0 = 0
    /\ resLast = NoOp
    /\ auth_zone_stack = <<>> /\ auth_zones = ParkedZones /\ frames = <<>>
    /\ next_node_id = 1 /\ auth_phase = "parked" /\ params = ParkedParams
    /\ authLast = NoOp
    /\ store = ParkedBalances /\ store0 = ParkedBalances /\ track = ParkedBalances
    /\ worktop = 0 /\ bucket = 0 /\ consumed = 0 /\ locked_fees = <<>>
    /\ cost_unit_price = 0 /\ tip_percentage = 0 /\ transferred = ParkedBalances
    /\ receipt = NoReceipt /\ feeLast = NoOp
SpecVault == InitVault /\ [][NextVault]_vars

\* A transaction starts: no frame yet, no lock held.
InitLock ==
    /\ locked_handles = {} /\ next_handle = 0 /\ lock_depth = 0
    /\ fields \in [Fields -> FieldData] /\ lockLast = NoOp
    /\ substates = <<>> /\ last_update = NeverUpdated /\ db_before = <<>>
    /\ db_updates = <<>> /\ db_pending = <<>> /\ db_pc = "idle" /\ db_count = 0
    /\ db_seen = NoOp
    /\ callLast = NoOp
    /\ event_store = <<>> /\ emit_log = <<>> /\ event_error = NoError
    /\ event_receipt = NoReceipt /\ eventLast = NoOp
    /\ tracked = <<>> /\ trackLast = NoOp
    /\ resource_def = NoOp /\ created_supply = 0 /\ minted = 0 /\ burned = 0
    /\ rdefLast = NoOp
    /\ held_locks = {} /\ resolveLast = NoOp
    /\ buffers = <<>> /\ next_buffer_id = 0 /\ allocated = <<>> /\ bufLast = NoOp
    /\ traverser = NoOp /\ travLast = NoOp
    /\ vault_liquid = 0 /\ vault_frozen = {}
    /\ vault_was_frozen = FALSE /\ vaultLast = NoOp
    /\ kind = "parked" /\ divisibility = 0
    /\ fungible = <<>> /\ nonFungible = <<>> /\ total0 = 0
    /\ resLast = NoOp
    /\ auth_zone_stack = <<>> /\ auth_zones = ParkedZones /\ frames = <<>>
    /\ next_node_id = 1 /\ auth_phase = "parked" /\ params = ParkedParams
    /\ authLast = NoOp
    /\ store = ParkedBalances /\ store0 = ParkedBalances /\ track = ParkedBalances
    /\ worktop = 0 /\ bucket = 0 /\ consumed = 0 /\ locked_fees = <<>>
    /\ cost_unit_price = 0 /\ tip_percentage = 0 /\ transferred = ParkedBalances
    /\ receipt = NoReceipt /\ feeLast = NoOp
SpecLock == InitLock /\ [][NextLock]_vars

\* InMemorySubstateDatabase::standard()
InitDb ==
    /\ substates = <<>> /\ last_update = NeverUpdated /\ db_before = <<>>
    /\ db_updates = <<>> /\ db_pending = <<>> /\ db_pc = "idle" /\ db_count = 0
    /\ db_seen = NoOp
    /\ callLast = NoOp
    /\ event_store = <<>> /\ emit_log = <<>> /\ event_error = NoError
    /\ event_receipt = NoReceipt /\ eventLast = NoOp
    /\ tracked = <<>> /\ trackLast = NoOp
    /\ resource_def = NoOp /\ created_supply = 0 /\ minted = 0 /\ burned = 0
    /\ rdefLast = NoOp
    /\ held_locks = {} /\ resolveLast = NoOp
    /\ buffers = <<>> /\ next_buffer_id = 0 /\ allocated = <<>> /\ bufLast = NoOp
    /\ traverser = NoOp /\ travLast = NoOp
    /\ locked_handles = {} /\ next_handle = 0 /\ lock_depth = 0 /\ fields = ParkedFields
    /\ lockLast = NoOp
    /\ vault_liquid = 0 /\ vault_frozen = {}
    /\ vault_was_frozen = FALSE /\ vaultLast = NoOp
    /\ kind = "parked" /\ divisibility = 0
    /\ fungible = <<>> /\ nonFungible = <<>> /\ total0 = 0
    /\ resLast = NoOp
    /\ auth_zone_stack = <<>> /\ auth_zones = ParkedZones /\ frames = <<>>
    /\ next_node_id = 1 /\ auth_phase = "parked" /\ params = ParkedParams
    /\ authLast = NoOp
    /\ store = ParkedBalances /\ store0 = ParkedBalances /\ track = ParkedBalances
    /\ worktop = 0 /\ bucket = 0 /\ consumed = 0 /\ locked_fees = <<>>
    /\ cost_unit_price = 0 /\ tip_percentage = 0 /\ transferred = ParkedBalances
    /\ receipt = NoReceipt /\ feeLast = NoOp
SpecDb == InitDb /\ [][NextDb]_vars
SpecDbSteps == InitDb /\ [][NextDbSteps]_vars

\* No function has been called yet.
InitPure ==
    /\ substates = <<>> /\ last_update = NeverUpdated /\ db_before = <<>>
    /\ db_updates = <<>> /\ db_pending = <<>> /\ db_pc = "idle" /\ db_count = 0
    /\ db_seen = NoOp
    /\ callLast = NoOp
    /\ event_store = <<>> /\ emit_log = <<>> /\ event_error = NoError
    /\ event_receipt = NoReceipt /\ eventLast = NoOp
    /\ tracked = <<>> /\ trackLast = NoOp
    /\ resource_def = NoOp /\ created_supply = 0 /\ minted = 0 /\ burned = 0
    /\ rdefLast = NoOp
    /\ held_locks = {} /\ resolveLast = NoOp
    /\ buffers = <<>> /\ next_buffer_id = 0 /\ allocated = <<>> /\ bufLast = NoOp
    /\ traverser = NoOp /\ travLast = NoOp
    /\ locked_handles = {} /\ next_handle = 0 /\ lock_depth = 0 /\ fields = ParkedFields
    /\ lockLast = NoOp
    /\ vault_liquid = 0 /\ vault_frozen = {}
    /\ vault_was_frozen = FALSE /\ vaultLast = NoOp
    /\ kind = "parked" /\ divisibility = 0
    /\ fungible = <<>> /\ nonFungible = <<>> /\ total0 = 0
    /\ resLast = NoOp
    /\ auth_zone_stack = <<>> /\ auth_zones = ParkedZones /\ frames = <<>>
    /\ next_node_id = 1 /\ auth_phase = "parked" /\ params = ParkedParams
    /\ authLast = NoOp
    /\ store = ParkedBalances /\ store0 = ParkedBalances /\ track = ParkedBalances
    /\ worktop = 0 /\ bucket = 0 /\ consumed = 0 /\ locked_fees = <<>>
    /\ cost_unit_price = 0 /\ tip_percentage = 0 /\ transferred = ParkedBalances
    /\ receipt = NoReceipt /\ feeLast = NoOp
SpecMethodAuth == InitPure /\ [][NextMethodAuth]_vars

\* A call of the codec is about to be made.
InitCodec ==
    /\ substates = <<>> /\ last_update = NeverUpdated /\ db_before = <<>>
    /\ db_updates = <<>> /\ db_pending = <<>> /\ db_pc = "idle" /\ db_count = 0
    /\ db_seen = NoOp
    /\ callLast \in CodecInputs
    /\ event_store = <<>> /\ emit_log = <<>> /\ event_error = NoError
    /\ event_receipt = NoReceipt /\ eventLast = NoOp
    /\ tracked = <<>> /\ trackLast = NoOp
    /\ resource_def = NoOp /\ created_supply = 0 /\ minted = 0 /\ burned = 0
    /\ rdefLast = NoOp
    /\ held_locks = {} /\ resolveLast = NoOp
    /\ buffers = <<>> /\ next_buffer_id = 0 /\ allocated = <<>> /\ bufLast = NoOp
    /\ traverser = NoOp /\ travLast = NoOp
    /\ locked_handles = {} /\ next_handle = 0 /\ lock_depth = 0 /\ fields = ParkedFields
    /\ lockLast = NoOp
    /\ vault_liquid = 0 /\ vault_frozen = {}
    /\ vault_was_frozen = FALSE /\ vaultLast = NoOp
    /\ kind = "parked" /\ divisibility = 0
    /\ fungible = <<>> /\ nonFungible = <<>> /\ total0 = 0
    /\ resLast = NoOp
    /\ auth_zone_stack = <<>> /\ auth_zones = ParkedZones /\ frames = <<>>
    /\ next_node_id = 1 /\ auth_phase = "parked" /\ params = ParkedParams
    /\ authLast = NoOp
    /\ store = ParkedBalances /\ store0 = ParkedBalances /\ track = ParkedBalances
    /\ worktop = 0 /\ bucket = 0 /\ consumed = 0 /\ locked_fees = <<>>
    /\ cost_unit_price = 0 /\ tip_percentage = 0 /\ transferred = ParkedBalances
    /\ receipt = NoReceipt /\ feeLast = NoOp
SpecCodec == InitCodec /\ [][NextCodec]_vars

\* An id has been built by one of the constructors.
InitNonFungibleId ==
    /\ substates = <<>> /\ last_update = NeverUpdated /\ db_before = <<>>
    /\ db_updates = <<>> /\ db_pending = <<>> /\ db_pc = "idle" /\ db_count = 0
    /\ db_seen = NoOp
    /\ callLast \in NonFungibleIdInputs
    /\ event_store = <<>> /\ emit_log = <<>> /\ event_error = NoError
    /\ event_receipt = NoReceipt /\ eventLast = NoOp
    /\ tracked = <<>> /\ trackLast = NoOp
    /\ resource_def = NoOp /\ created_supply = 0 /\ minted = 0 /\ burned = 0
    /\ rdefLast = NoOp
    /\ held_locks = {} /\ resolveLast = NoOp
    /\ buffers = <<>> /\ next_buffer_id = 0 /\ allocated = <<>> /\ bufLast = NoOp
    /\ traverser = NoOp /\ travLast = NoOp
    /\ locked_handles = {} /\ next_handle = 0 /\ lock_depth = 0 /\ fields = ParkedFields
    /\ lockLast = NoOp
    /\ vault_liquid = 0 /\ vault_frozen = {}
    /\ vault_was_frozen = FALSE /\ vaultLast = NoOp
    /\ kind = "parked" /\ divisibility = 0
    /\ fungible = <<>> /\ nonFungible = <<>> /\ total0 = 0
    /\ resLast = NoOp
    /\ auth_zone_stack = <<>> /\ auth_zones = ParkedZones /\ frames = <<>>
    /\ next_node_id = 1 /\ auth_phase = "parked" /\ params = ParkedParams
    /\ authLast = NoOp
    /\ store = ParkedBalances /\ store0 = ParkedBalances /\ track = ParkedBalances
    /\ worktop = 0 /\ bucket = 0 /\ consumed = 0 /\ locked_fees = <<>>
    /\ cost_unit_price = 0 /\ tip_percentage = 0 /\ transferred = ParkedBalances
    /\ receipt = NoReceipt /\ feeLast = NoOp
SpecNonFungibleId == InitNonFungibleId /\ [][NextNonFungibleId]_vars

\* A transaction starts: the track is empty.
InitTrack ==
    /\ substates = <<>> /\ last_update = NeverUpdated /\ db_before = <<>>
    /\ db_updates = <<>> /\ db_pending = <<>> /\ db_pc = "idle" /\ db_count = 0
    /\ db_seen = NoOp
    /\ callLast = NoOp
    /\ event_store = <<>> /\ emit_log = <<>> /\ event_error = NoError
    /\ event_receipt = NoReceipt /\ eventLast = NoOp
    /\ tracked = [substates |-> [vault \in TrackedVaults |->
                                    IF vault = "temp_vault" THEN "absent" ELSE "base"],
                  loan_repaid |-> FALSE, error |-> NoError, receipt |-> NoReceipt]
    /\ trackLast = NoOp
    /\ resource_def = NoOp /\ created_supply = 0 /\ minted = 0 /\ burned = 0
    /\ rdefLast = NoOp
    /\ held_locks = {} /\ resolveLast = NoOp
    /\ buffers = <<>> /\ next_buffer_id = 0 /\ allocated = <<>> /\ bufLast = NoOp
    /\ traverser = NoOp /\ travLast = NoOp
    /\ locked_handles = {} /\ next_handle = 0 /\ lock_depth = 0 /\ fields = ParkedFields
    /\ lockLast = NoOp
    /\ vault_liquid = 0 /\ vault_frozen = {}
    /\ vault_was_frozen = FALSE /\ vaultLast = NoOp
    /\ kind = "parked" /\ divisibility = 0
    /\ fungible = <<>> /\ nonFungible = <<>> /\ total0 = 0
    /\ resLast = NoOp
    /\ auth_zone_stack = <<>> /\ auth_zones = ParkedZones /\ frames = <<>>
    /\ next_node_id = 1 /\ auth_phase = "parked" /\ params = ParkedParams
    /\ authLast = NoOp
    /\ store = ParkedBalances /\ store0 = ParkedBalances /\ track = ParkedBalances
    /\ worktop = 0 /\ bucket = 0 /\ consumed = 0 /\ locked_fees = <<>>
    /\ cost_unit_price = 0 /\ tip_percentage = 0 /\ transferred = ParkedBalances
    /\ receipt = NoReceipt /\ feeLast = NoOp
SpecTrack == InitTrack /\ [][NextTrack]_vars

\* ResourceDef::new returned Ok: the flags are valid, the supply is not negative.
InitResourceDef ==
    /\ substates = <<>> /\ last_update = NeverUpdated /\ db_before = <<>>
    /\ db_updates = <<>> /\ db_pending = <<>> /\ db_pc = "idle" /\ db_count = 0
    /\ db_seen = NoOp
    /\ callLast = NoOp
    /\ event_store = <<>> /\ emit_log = <<>> /\ event_error = NoError
    /\ event_receipt = NoReceipt /\ eventLast = NoOp
    /\ tracked = <<>> /\ trackLast = NoOp
    /\ resource_def \in [resource_type : ResourceTypes, flags : SUBSET ALL_FLAGS,
                         mutable_flags : SUBSET ALL_FLAGS, total_supply : 0..1]
    /\ created_supply = resource_def.total_supply /\ minted = 0 /\ burned = 0
    /\ rdefLast = [op |-> "new", calls |-> 0]
    /\ held_locks = {} /\ resolveLast = NoOp
    /\ buffers = <<>> /\ next_buffer_id = 0 /\ allocated = <<>> /\ bufLast = NoOp
    /\ traverser = NoOp /\ travLast = NoOp
    /\ locked_handles = {} /\ next_handle = 0 /\ lock_depth = 0 /\ fields = ParkedFields
    /\ lockLast = NoOp
    /\ vault_liquid = 0 /\ vault_frozen = {}
    /\ vault_was_frozen = FALSE /\ vaultLast = NoOp
    /\ kind = "parked" /\ divisibility = 0
    /\ fungible = <<>> /\ nonFungible = <<>> /\ total0 = 0
    /\ resLast = NoOp
    /\ auth_zone_stack = <<>> /\ auth_zones = ParkedZones /\ frames = <<>>
    /\ next_node_id = 1 /\ auth_phase = "parked" /\ params = ParkedParams
    /\ authLast = NoOp
    /\ store = ParkedBalances /\ store0 = ParkedBalances /\ track = ParkedBalances
    /\ worktop = 0 /\ bucket = 0 /\ consumed = 0 /\ locked_fees = <<>>
    /\ cost_unit_price = 0 /\ tip_percentage = 0 /\ transferred = ParkedBalances
    /\ receipt = NoReceipt /\ feeLast = NoOp
SpecSupply == InitResourceDef /\ [][NextSupply]_vars
SpecFlags == InitResourceDef /\ [][NextFlags]_vars

\* A transaction starts with no event emitted.
InitEvents ==
    /\ substates = <<>> /\ last_update = NeverUpdated /\ db_before = <<>>
    /\ db_updates = <<>> /\ db_pending = <<>> /\ db_pc = "idle" /\ db_count = 0
    /\ db_seen = NoOp
    /\ callLast = NoOp
    /\ event_store = <<>> /\ emit_log = <<>> /\ event_error = NoError
    /\ event_receipt = NoReceipt /\ eventLast = NoOp
    /\ tracked = <<>> /\ trackLast = NoOp
    /\ resource_def = NoOp /\ created_supply = 0 /\ minted = 0 /\ burned = 0
    /\ rdefLast = NoOp
    /\ held_locks = {} /\ resolveLast = NoOp
    /\ buffers = <<>> /\ next_buffer_id = 0 /\ allocated = <<>> /\ bufLast = NoOp
    /\ traverser = NoOp /\ travLast = NoOp
    /\ locked_handles = {} /\ next_handle = 0 /\ lock_depth = 0 /\ fields = ParkedFields
    /\ lockLast = NoOp
    /\ vault_liquid = 0 /\ vault_frozen = {}
    /\ vault_was_frozen = FALSE /\ vaultLast = NoOp
    /\ kind = "parked" /\ divisibility = 0
    /\ fungible = <<>> /\ nonFungible = <<>> /\ total0 = 0
    /\ resLast = NoOp
    /\ auth_zone_stack = <<>> /\ auth_zones = ParkedZones /\ frames = <<>>
    /\ next_node_id = 1 /\ auth_phase = "parked" /\ params = ParkedParams
    /\ authLast = NoOp
    /\ store = ParkedBalances /\ store0 = ParkedBalances /\ track = ParkedBalances
    /\ worktop = 0 /\ bucket = 0 /\ consumed = 0 /\ locked_fees = <<>>
    /\ cost_unit_price = 0 /\ tip_percentage = 0 /\ transferred = ParkedBalances
    /\ receipt = NoReceipt /\ feeLast = NoOp
SpecEvents == InitEvents /\ [][NextEvents]_vars

InitBuffers ==
    /\ substates = <<>> /\ last_update = NeverUpdated /\ db_before = <<>>
    /\ db_updates = <<>> /\ db_pending = <<>> /\ db_pc = "idle" /\ db_count = 0
    /\ db_seen = NoOp
    /\ callLast = NoOp
    /\ event_store = <<>> /\ emit_log = <<>> /\ event_error = NoError
    /\ event_receipt = NoReceipt /\ eventLast = NoOp
    /\ tracked = <<>> /\ trackLast = NoOp
    /\ resource_def = NoOp /\ created_supply = 0 /\ minted = 0 /\ burned = 0
    /\ rdefLast = NoOp
    /\ held_locks = {} /\ resolveLast = NoOp
    /\ buffers = <<>> /\ next_buffer_id = 0 /\ allocated = <<>> /\ bufLast = [op |-> "new"]
    /\ traverser = NoOp /\ travLast = NoOp
    /\ locked_handles = {} /\ next_handle = 0 /\ lock_depth = 0 /\ fields = ParkedFields
    /\ lockLast = NoOp
    /\ vault_liquid = 0 /\ vault_frozen = {}
    /\ vault_was_frozen = FALSE /\ vaultLast = NoOp
    /\ kind = "parked" /\ divisibility = 0
    /\ fungible = <<>> /\ nonFungible = <<>> /\ total0 = 0
    /\ resLast = NoOp
    /\ auth_zone_stack = <<>> /\ auth_zones = ParkedZones /\ frames = <<>>
    /\ next_node_id = 1 /\ auth_phase = "parked" /\ params = ParkedParams
    /\ authLast = NoOp
    /\ store = ParkedBalances /\ store0 = ParkedBalances /\ track = ParkedBalances
    /\ worktop = 0 /\ bucket = 0 /\ consumed = 0 /\ locked_fees = <<>>
    /\ cost_unit_price = 0 /\ tip_percentage = 0 /\ transferred = ParkedBalances
    /\ receipt = NoReceipt /\ feeLast = NoOp
SpecBuffers == InitBuffers /\ [][NextBuffers]_vars

InitTraverser ==
    /\ substates = <<>> /\ last_update = NeverUpdated /\ db_before = <<>>
    /\ db_updates = <<>> /\ db_pending = <<>> /\ db_pc = "idle" /\ db_count = 0
    /\ db_seen = NoOp
    /\ callLast = NoOp
    /\ event_store = <<>> /\ emit_log = <<>> /\ event_error = NoError
    /\ event_receipt = NoReceipt /\ eventLast = NoOp
    /\ tracked = <<>> /\ trackLast = NoOp
    /\ resource_def = NoOp /\ created_supply = 0 /\ minted = 0 /\ burned = 0
    /\ rdefLast = NoOp
    /\ held_locks = {} /\ resolveLast = NoOp
    /\ buffers = <<>> /\ next_buffer_id = 0 /\ allocated = <<>> /\ bufLast = NoOp
    /\ traverser \in {[root_type_index |-> t, ancestor_path |-> <<>>, container_stack |-> <<>>,
                      root_done |-> FALSE, status |-> "running"] : t \in RootTypes}
    /\ travLast = [op |-> "new"]
    /\ locked_handles = {} /\ next_handle = 0 /\ lock_depth = 0 /\ fields = ParkedFields
    /\ lockLast = NoOp
    /\ vault_liquid = 0 /\ vault_frozen = {}
    /\ vault_was_frozen = FALSE /\ vaultLast = NoOp
    /\ kind = "parked" /\ divisibility = 0
    /\ fungible = <<>> /\ nonFungible = <<>> /\ total0 = 0
    /\ resLast = NoOp
    /\ auth_zone_stack = <<>> /\ auth_zones = ParkedZones /\ frames = <<>>
    /\ next_node_id = 1 /\ auth_phase = "parked" /\ params = ParkedParams
    /\ authLast = NoOp
    /\ store = ParkedBalances /\ store0 = ParkedBalances /\ track = ParkedBalances
    /\ worktop = 0 /\ bucket = 0 /\ consumed = 0 /\ locked_fees = <<>>
    /\ cost_unit_price = 0 /\ tip_percentage = 0 /\ transferred = ParkedBalances
    /\ receipt = NoReceipt /\ feeLast = NoOp
SpecTraverser == InitTraverser /\ [][NextTraverser]_vars

InitResolve ==
    /\ substates = <<>> /\ last_update = NeverUpdated /\ db_before = <<>>
    /\ db_updates = <<>> /\ db_pending = <<>> /\ db_pc = "idle" /\ db_count = 0
    /\ db_seen = NoOp
    /\ callLast = NoOp
    /\ event_store = <<>> /\ emit_log = <<>> /\ event_error = NoError
    /\ event_receipt = NoReceipt /\ eventLast = NoOp
    /\ tracked = <<>> /\ trackLast = NoOp
    /\ resource_def = NoOp /\ created_supply = 0 /\ minted = 0 /\ burned = 0
    /\ rdefLast = NoOp
    /\ held_locks = {} /\ resolveLast = [op |-> "new", next |-> 0, calls |-> 0]
    /\ buffers = <<>> /\ next_buffer_id = 0 /\ allocated = <<>> /\ bufLast = NoOp
    /\ traverser = NoOp /\ travLast = NoOp
    /\ locked_handles = {} /\ next_handle = 0 /\ lock_depth = 0 /\ fields = ParkedFields
    /\ lockLast = NoOp
    /\ vault_liquid = 0 /\ vault_frozen = {}
    /\ vault_was_frozen = FALSE /\ vaultLast = NoOp
    /\ kind = "parked" /\ divisibility = 0
    /\ fungible = <<>> /\ nonFungible = <<>> /\ total0 = 0
    /\ resLast = NoOp
    /\ auth_zone_stack = <<>> /\ auth_zones = ParkedZones /\ frames = <<>>
    /\ next_node_id = 1 /\ auth_phase = "parked" /\ params = ParkedParams
    /\ authLast = NoOp
    /\ store = ParkedBalances /\ store0 = ParkedBalances /\ track = ParkedBalances
    /\ worktop = 0 /\ bucket = 0 /\ consumed = 0 /\ locked_fees = <<>>
    /\ cost_unit_price = 0 /\ tip_percentage = 0 /\ transferred = ParkedBalances
    /\ receipt = NoReceipt /\ feeLast = NoOp
SpecResolve == InitResolve /\ [][NextResolve]_vars

(***************************************************************************)
(* Properties of the resource containers (under SpecResource)              *)
(***************************************************************************)
\* The total amount held by the live containers of the resource.
TotalHeld == IF kind = "fungible" THEN SumSeq(fungible) ELSE SumCard(nonFungible)

\* C1: across any sequence of put, take_by_amount, take_by_ids and take_all on
\* the containers of one resource, the sum of the amounts held by all the
\* containers (those returned by takes included) stays what it was at the start.
C1_Conservation == TotalHeld = total0

\* C10: LiquidFungibleResource::take_by_amount(a) fails with InsufficientBalance
\* exactly when a is greater than the container's amount, and then the amount is
\* unchanged; otherwise the container holds its amount less a and the container
\* returned holds exactly a.
C10_TakeByAmount ==
    (kind = "fungible" /\ resLast.op = "take_by_amount") =>
        /\ (resLast.result = "InsufficientBalance") <=> (resLast.arg > resLast.before)
        /\ resLast.result \in {"Ok", "InsufficientBalance"}
        /\ resLast.result = "InsufficientBalance" =>
              fungible[resLast.container] = resLast.before
        /\ resLast.result = "Ok" =>
              /\ fungible[resLast.container] = resLast.before - resLast.arg
              /\ fungible[Len(fungible)] = resLast.arg

\* A take of a part of the balance has succeeded.
C10_Witness ==
    /\ kind = "fungible" /\ resLast.op = "take_by_amount"
    /\ resLast.result = "Ok"
    /\ resLast.arg > 0 /\ resLast.arg < resLast.before
    /\ fungible[Len(fungible)] = resLast.arg

(***************************************************************************)
(* Properties of the auth module (under SpecAuth)                          *)
(***************************************************************************)
\* The auth zone stack the caller had when before_push_frame last ran: a call
\* that passed has pushed the callee's zone on top of it since.
CallerStack ==
    IF authLast.result = "Ok"
    THEN SubSeq(auth_zone_stack, 1, Len(auth_zone_stack) - 1)
    ELSE auth_zone_stack

\* The barrier zones left behind on the way from the top of `stack` down to its
\* k-th zone (each zone's parent is the zone below it).
BarriersCrossed(stack, k) ==
    Cardinality({j \in (k + 1)..Len(stack) : auth_zones[stack[j]].is_barrier})

\* A proof of r is within reach of the top of `stack` across at most `allowed`
\* barrier zones.
ProofReachable(stack, r, allowed) ==
    \E k \in 1..Len(stack) :
        /\ r \in ZoneProofs(auth_zones[stack[k]])
        /\ BarriersCrossed(stack, k) <= allowed

\* 0 for a method on a global object, 1 for every other callee.
CrossingsAllowed(callee) ==
    IF callee.identifier = "Method" /\ callee.receiver = "GlobalObject" THEN 0 ELSE 1

\* C2: a callee whose required rule is Require(r) runs only if, at call time, a
\* proof of r is reachable from the auth zone on top of the stack across at most
\* barrier_crossings_allowed barrier zones; in every other case before_push_frame
\* fails and no frame is pushed for the callee.
C2_RequireIsEnforced ==
    (/\ authLast.op = "before_push_frame"
     /\ authLast.authorization.type = "Require"
     /\ authLast.callee.identifier \in {"Method", "Function"}) =>
        LET reachable == ProofReachable(CallerStack, authLast.authorization.r,
                                        CrossingsAllowed(authLast.callee))
        IN  /\ (authLast.result = "Ok") <=> reachable
            /\ authLast.result = "Ok" =>
                  /\ Len(frames) = authLast.depth + 1
                  /\ frames[Len(frames)] = authLast.callee
            /\ authLast.result # "Ok" =>
                  /\ authLast.result = "Unauthorized"
                  /\ Len(frames) = authLast.depth

\* A method requiring r was let in on a proof held one barrier zone away: the
\* caller's own zone is a barrier and does not hold the proof.
C2_Witness ==
    /\ authLast.op = "before_push_frame"
    /\ authLast.authorization.type = "Require"
    /\ authLast.callee.identifier = "Method"
    /\ authLast.result = "Ok"
    /\ Len(CallerStack) >= 2
    /\ auth_zones[CallerStack[Len(CallerStack)]].is_barrier
    /\ authLast.authorization.r \notin ZoneProofs(auth_zones[CallerStack[Len(CallerStack)]])

\* C34: before_push_frame verifies the callee's rule starting from the auth zone
\* on top of the stack, allowing 0 barrier crossings when the callee is a method
\* on a global object and 1 in every other case; a VirtualLazyLoad callee is
\* accepted without any verification.
C34_VerifiedFromTopZone ==
    authLast.op = "before_push_frame" =>
        IF authLast.callee.identifier = "VirtualLazyLoad"
        THEN authLast.result = "Ok"
        ELSE LET allowed == IF /\ authLast.callee.identifier = "Method"
                               /\ authLast.callee.receiver = "GlobalObject"
                            THEN 0 ELSE 1
                 top == Len(CallerStack)
                 holds ==
                    \/ authLast.authorization.type = "AllowAll"
                    \/ /\ authLast.authorization.type = "Require"
                       /\ \E k \in 1..top :
                             /\ authLast.authorization.r
                                   \in ZoneProofs(auth_zones[CallerStack[k]])
                             /\ BarriersCrossed(CallerStack, k) <= allowed
             IN  authLast.result = IF holds THEN "Ok" ELSE "Unauthorized"

\* A VirtualLazyLoad callee whose rule is DenyAll was let in, and so was a
\* callee no rule could have let in.
C34_Witness ==
    /\ authLast.op = "before_push_frame"
    /\ authLast.callee.identifier = "VirtualLazyLoad"
    /\ authLast.authorization.type = "DenyAll"
    /\ authLast.result = "Ok"
    /\ frames[Len(frames)] = authLast.callee

\* The zone on_execution_start creates for the frame of `actor` on top of the
\* zone `below` (0 for none), as far as the frame decides it.
ZoneOfFrame(zone, actor, below) ==
    /\ zone.is_barrier = (actor # None /\ actor.identifier = "Method"
                                      /\ actor.receiver = "GlobalObject")
    /\ zone.parent = below
    /\ zone.virtual_non_fungibles_non_extending =
          IF actor = None THEN {} ELSE {PackageToken(actor.package_address)}

\* C21: between on_init and on_teardown auth_zone_stack holds the sentinel zone
\* at the bottom and above it one zone per call frame that has started and not
\* finished, in call order; on_execution_finish removes the zone the matching
\* on_execution_start pushed; before on_init and after on_teardown it is empty.
C21_OneZonePerFrame ==
    /\ auth_phase \in {"new", "done"} => auth_zone_stack = <<>>
    /\ auth_phase = "running" =>
          /\ Len(auth_zone_stack) = Len(frames) + 1
          /\ \A i \in 1..Len(auth_zone_stack), j \in 1..Len(auth_zone_stack) :
                i # j => auth_zone_stack[i] # auth_zone_stack[j]
          /\ ZoneOfFrame(auth_zones[auth_zone_stack[1]], None, 0)
          /\ \A i \in 1..Len(frames) :
                ZoneOfFrame(auth_zones[auth_zone_stack[i + 1]], frames[i],
                            auth_zone_stack[i])
    /\ authLast.op \in {"on_execution_finish", "on_teardown"} =>
          /\ auth_zone_stack = SubSeq(authLast.before, 1, Len(authLast.before) - 1)
          /\ Len(authLast.before) = Len(authLast.frames_before) + 1
          /\ auth_zones[authLast.before[Len(authLast.before)]] = NoZone

\* A frame called from inside another frame has just finished: its caller's
\* zone and the sentinel are what is left.
C21_Witness ==
    /\ authLast.op = "on_execution_finish"
    /\ Len(authLast.before) = 3
    /\ Len(frames) = 1
    /\ auth_zone_stack = SubSeq(authLast.before, 1, 2)

\* The callee's rule does not hold at call time: DenyAll, or a Require whose
\* proof is not within reach of the caller's zone.
VerificationFails ==
    \/ authLast.authorization.type = "DenyAll"
    \/ /\ authLast.authorization.type = "Require"
       /\ ~ProofReachable(authLast.before, authLast.authorization.r,
                          CrossingsAllowed(authLast.callee))

\* C22: when the verification of the callee's rule fails, before_push_frame
\* returns Unauthorized with the callee's identifier and the required rule, no
\* frame is pushed for the callee and auth_zone_stack is unchanged.
C22_UnauthorizedLeavesStack ==
    (/\ authLast.op = "before_push_frame"
     /\ authLast.callee.identifier \in {"Method", "Function"}
     /\ VerificationFails) =>
        /\ authLast.result = "Unauthorized"
        /\ authLast.error.kind = "Unauthorized"
        /\ authLast.error.identifier = authLast.callee.identifier
        /\ authLast.error.receiver = authLast.callee.receiver
        /\ authLast.error.authorization = authLast.authorization
        /\ frames = authLast.frames_before
        /\ auth_zone_stack = authLast.before

\* A call made from inside a frame was refused for a badge no zone in reach
\* holds.
C22_Witness ==
    /\ authLast.op = "before_push_frame"
    /\ authLast.callee.identifier = "Method"
    /\ authLast.authorization = Require(Badge("badge2"))
    /\ VerificationFails
    /\ authLast.result = "Unauthorized"
    /\ Len(frames) >= 1

\* C23: the zone on_execution_start creates for a frame holds the package proof
\* of the package whose code runs in the frame (the caller of every call made
\* from it), so a call from code of a package into that package passes a rule
\* requiring the package's own token, the one Runtime::package_token gives; the
\* sentinel zone holds no package proof.
C23_PackageCanCallItself ==
    /\ auth_phase = "running" =>
          /\ auth_zones[auth_zone_stack[1]].virtual_non_fungibles_non_extending = {}
          /\ \A i \in 1..Len(frames) :
                auth_zones[auth_zone_stack[i + 1]].virtual_non_fungibles_non_extending
                    = {PackageToken(frames[i].package_address)}
    /\ (/\ authLast.op = "before_push_frame"
        /\ authLast.frames_before # <<>>
        /\ authLast.callee.identifier \in {"Method", "Function"}
        /\ authLast.callee.package_address =
              authLast.frames_before[Len(authLast.frames_before)].package_address
        /\ authLast.authorization =
              Require(Runtime_package_token(authLast.callee.package_address)))
          => authLast.result = "Ok"

\* The frame runs the transaction processor blueprint of the transaction
\* processor package.
RunsTransactionProcessor(actor) ==
    /\ actor # None
    /\ actor.package_address = "TRANSACTION_PROCESSOR_PACKAGE"
    /\ actor.blueprint_name = "TRANSACTION_PROCESSOR_BLUEPRINT"

\* The zone has the transaction's signer proofs and virtual resources exactly
\* if `actor` runs the transaction processor, and none of them otherwise.
SignerProofsFor(zone, actor) ==
    IF RunsTransactionProcessor(actor)
    THEN /\ zone.virtual_resources = params.virtual_resources
         /\ zone.virtual_non_fungibles = params.initial_proofs
    ELSE /\ zone.virtual_resources = {}
         /\ zone.virtual_non_fungibles = {}

\* C24: the transaction's signer proofs and configured virtual resources are in
\* a zone if and only if its frame's actor is the transaction processor
\* blueprint of the transaction processor package; every other zone, the
\* sentinel included, has none of them, and every zone is created with no
\* pushed proofs.
C24_SignerProofsOnlyForProcessor ==
    /\ auth_phase = "running" =>
          /\ SignerProofsFor(auth_zones[auth_zone_stack[1]], None)
          /\ frames = <<>> => auth_zones[auth_zone_stack[1]].proofs = {}
          /\ \A i \in 1..Len(frames) :
                SignerProofsFor(auth_zones[auth_zone_stack[i + 1]], frames[i])
    /\ (authLast.op = "before_push_frame" /\ authLast.result = "Ok") =>
          auth_zones[last_auth_zone(auth_zone_stack)].proofs = {}

\* With signer proofs and virtual resources configured, the transaction
\* processor's zone has them and the zone just created for another blueprint of
\* the transaction processor package has none.
C24_Witness ==
    /\ params.initial_proofs # {} /\ params.virtual_resources # {}
    /\ Len(frames) = 2
    /\ RunsTransactionProcessor(frames[1])
    /\ auth_zones[auth_zone_stack[2]].virtual_non_fungibles = params.initial_proofs
    /\ authLast.op = "before_push_frame" /\ authLast.result = "Ok"
    /\ frames[2].package_address = "TRANSACTION_PROCESSOR_PACKAGE"
    /\ frames[2].blueprint_name = "blueprint1"
    /\ auth_zones[auth_zone_stack[3]].virtual_non_fungibles = {}

\* The zone nodes that exist: those of the frames that have not exited.
LiveZones == {auth_zone_stack[i] : i \in 1..Len(auth_zone_stack)}

\* The proofs that are alive: those some zone node holds.
AliveProofs == UNION {auth_zones[zone_id].proofs : zone_id \in 1..MaxNodes}

\* C25: when a frame finishes its zone node is dropped and every proof the zone
\* still holds is released: a proof created in a frame that has exited is alive
\* only if it was moved to a zone further down the stack before the exit.
C25_ProofsDieWithFrame ==
    /\ \A zone_id \in (1..MaxNodes) \ LiveZones : auth_zones[zone_id] = NoZone
    /\ \A zone_id \in LiveZones :
          \A proof \in auth_zones[zone_id].proofs :
              proof.origin \notin LiveZones => proof.origin > zone_id
    /\ authLast.op \in {"on_execution_finish", "on_teardown"} =>
          /\ authLast.held \cap AliveProofs = {}
          /\ \A proof \in AliveProofs :
                proof.origin = authLast.before[Len(authLast.before)] =>
                    \E zone_id \in LiveZones : proof \in auth_zones[zone_id].proofs

\* A frame has exited while its zone still held a proof, after another proof had
\* been moved to the zone of its caller: only the one that was moved is alive.
C25_Witness ==
    /\ authLast.op = "on_execution_finish"
    /\ Len(authLast.before) = 3
    /\ authLast.held # {}
    /\ \E proof \in auth_zones[last_auth_zone(auth_zone_stack)].proofs :
          proof.origin = authLast.before[3]
    /\ Cardinality(AliveProofs) = 1

(***************************************************************************)
(* Properties of the fee reserve and of the receipt (under SpecFee)        *)
(***************************************************************************)
Committed == receipt.kind \in {"CommitSuccess", "CommitFailure"}

\* (cost_unit_price + cost_unit_price * tip_percentage / 100) * consumed
FeeOwed ==
    (cost_unit_price + ((cost_unit_price * tip_percentage) \div 100)) * consumed

\* What the transaction cost a vault beyond its own transfers: on success the
\* transfers are committed, on failure they are rolled back.
Charged(v) ==
    IF receipt.kind = "CommitSuccess"
    THEN store0[v] - transferred[v] - store[v]
    ELSE store0[v] - store[v]

RECURSIVE SumOver(_, _)
SumOver(f, S) ==
    IF S = {} THEN 0
    ELSE LET v == CHOOSE x \in S : TRUE IN f[v] + SumOver(f, S \ {v})

\* The XRD locked without condition.
NonContingentLocked ==
    SumOver([v \in Vaults |->
                SumSeq([i \in 1..Len(locked_fees) |->
                          IF locked_fees[i].vault = v /\ ~locked_fees[i].contingent
                          THEN locked_fees[i].amount ELSE 0])],
            Vaults)

LoanPrice ==
    system_loan * (cost_unit_price + ((cost_unit_price * tip_percentage) \div 100))

\* C3: a transaction that ends while its locked non-contingent fee does not cover
\* the system loan gets the receipt Reject and never a commit, whether no fee was
\* locked, the lock failed on the vault's balance or on its resource, or the
\* amount locked is smaller than the loan.
C3_RejectedUnlessLoanRepaid ==
    (receipt.kind # "none" /\ NonContingentLocked < LoanPrice) =>
        receipt.kind = "Reject"

\* A lock was taken, too small for the loan, and the transaction was rejected.
C3_Witness ==
    /\ receipt.kind = "Reject"
    /\ Len(locked_fees) >= 1
    /\ ~locked_fees[1].contingent
    /\ locked_fees[1].amount > 0
    /\ NonContingentLocked < LoanPrice

\* C4: after a rejected transaction the store is what it was before it: no vault
\* has a different balance, a vault a fee lock was taken from included.
C4_RejectLeavesStore ==
    receipt.kind = "Reject" => store = store0

\* Rejected after a (too small) lock had been debited in the working copy.
C4_Witness ==
    /\ receipt.kind = "Reject"
    /\ Len(locked_fees) >= 1
    /\ locked_fees[1].amount > 0
    /\ track[locked_fees[1].vault] < store0[locked_fees[1].vault]
    /\ store = store0

\* The vaults a fee was locked from without condition.
NonContingentVaults ==
    {locked_fees[i].vault : i \in {j \in 1..Len(locked_fees) :
                                        ~locked_fees[j].contingent}}

\* C5: an instruction failing once the loan is repaid gives a commit-failure with
\* that error; every vault is back at its balance before the transaction, except
\* that the fee, effective_price * consumed in all, is taken from the vaults the
\* fee was locked from.
C5_FailureKeepsOnlyFee ==
    receipt.kind = "CommitFailure" =>
        /\ receipt.error # "none"
        /\ NonContingentLocked >= LoanPrice
        /\ \A v \in Vaults : store[v] <= store0[v]
        /\ \A v \in Vaults \ NonContingentVaults : store[v] = store0[v]
        /\ SumOver([v \in Vaults |-> store0[v] - store[v]], Vaults) = FeeOwed

\* A transfer from account2 had reached account1, the fee payer, when a later
\* instruction failed: the transfer is undone and only the fee is kept.
C5_Witness ==
    /\ receipt.kind = "CommitFailure"
    /\ receipt.error = "AssertionFailed"
    /\ transferred["account2"] > 0
    /\ transferred["account1"] < 0
    /\ NonContingentVaults = {"account1"}
    /\ consumed > 0
    /\ store["account1"] = store0["account1"] - FeeOwed
    /\ store["account2"] = store0["account2"]

\* The vaults any fee was locked from.
LockVaults == {locked_fees[i].vault : i \in 1..Len(locked_fees)}

\* C6: on commit-success a vault that is the transaction's one fee payer ends with
\* its starting balance less what it transferred less exactly
\* (cost_unit_price + cost_unit_price * tip_percentage / 100) * consumed, the rest
\* of what it locked being back in it; every other vault ends with its starting
\* balance plus exactly what was transferred to it.
C6_SuccessAccounting ==
    receipt.kind = "CommitSuccess" =>
        /\ worktop = 0
        /\ SumOver(transferred, Vaults) = 0
        /\ \A v \in Vaults \ LockVaults : store[v] = store0[v] - transferred[v]
        /\ \A p \in Vaults :
              LockVaults = {p} =>
                  store[p] = store0[p] - transferred[p] - FeeOwed

\* account1 locked more than the fee came to, sent an amount to account2 and got
\* the unused part of the lock back.
C6_Witness ==
    /\ receipt.kind = "CommitSuccess"
    /\ LockVaults = {"account1"}
    /\ transferred["account1"] > 0
    /\ store["account2"] = store0["account2"] + transferred["account1"]
    /\ consumed > 0
    /\ locked_fees[1].amount > FeeOwed
    /\ store["account1"] = store0["account1"] - transferred["account1"] - FeeOwed

\* The vaults whose only fee lock is one contingent lock, with that lock's place.
ContingentOnly ==
    {i \in 1..Len(locked_fees) :
        /\ locked_fees[i].contingent
        /\ \A j \in 1..Len(locked_fees) :
              j # i => locked_fees[j].vault # locked_fees[i].vault}

\* round_towards_zero(locked_amount / effective_price) * effective_price
WholeUnitsOf(amount) ==
    LET eff == cost_unit_price + ((cost_unit_price * tip_percentage) \div 100)
    IN  (amount \div eff) * eff

RECURSIVE PaidInOrder(_, _, _)
PaidInOrder(entries, required, v) ==
    IF entries = <<>> THEN 0
    ELSE LET paid == Min2(Head(entries).amount, required)
         IN  (IF Head(entries).vault = v THEN paid ELSE 0)
             + PaidInOrder(Tail(entries), required - paid, v)

\* The locked entries with what finalize may draw from each: nothing from a
\* contingent entry unless the transaction succeeded.
Drawable ==
    [i \in 1..Len(locked_fees) |->
        [vault |-> locked_fees[i].vault,
         contingent |-> locked_fees[i].contingent,
         amount |-> IF locked_fees[i].contingent /\ receipt.kind # "CommitSuccess"
                    THEN 0 ELSE locked_fees[i].amount]]

Reverse(s) == [i \in 1..Len(s) |-> s[Len(s) + 1 - i]]

IsContingent(l) == l.contingent
IsNonContingent(l) == ~l.contingent

\* The non-contingent entries in the order they were locked, then the contingent.
NonContingentEntries == SelectSeq(Drawable, IsNonContingent)
NonContingentFirst == NonContingentEntries \o SelectSeq(Drawable, IsContingent)

NonContingentLockedBy(v) ==
    SumSeq([i \in 1..Len(NonContingentEntries) |->
               IF NonContingentEntries[i].vault = v
               THEN NonContingentEntries[i].amount ELSE 0])

\* What is left of the non-contingent entries once they have paid in that order.
NonContingentSurplus ==
    NonContingentLocked
        - SumOver([v \in Vaults |-> PaidInOrder(NonContingentEntries, FeeOwed, v)],
                  Vaults)

C9_ConsumedMonotoneAndBounded ==
    [][/\ consumed' >= consumed
       /\ consumed' <= cost_unit_limit
       /\ (feeLast'.op = "consume"
             /\ feeLast'.before + feeLast'.units > cost_unit_limit) =>
                /\ feeLast'.result = "OutOfCost"
                /\ feeLast'.before = consumed
                /\ consumed' = consumed]_vars

\* A consume was refused at the limit after earlier ones had been counted.
C9_Witness ==
    /\ feeLast.op = "consume"
    /\ feeLast.result = "OutOfCost"
    /\ feeLast.before > 0
    /\ feeLast.before + feeLast.units > cost_unit_limit
    /\ consumed = feeLast.before

\* C11: a take of an amount with more decimal places than the resource's
\* divisibility permits fails with InvalidTakeAmount, whatever the amount's sign,
\* and leaves the container as it was.
C11_InvalidTakeAmount ==
    (/\ kind = "fungible"
     /\ resLast.op = "take"
     /\ Rem(resLast.arg, Pow10(18 - divisibility)) # 0) =>
        /\ resLast.result = "InvalidTakeAmount"
        /\ fungible[resLast.container] = resLast.before

\* The container a successful take has just returned.
Returned == IF kind = "fungible" THEN fungible[Len(fungible)]
            ELSE nonFungible[Len(nonFungible)]

\* The container the last operation was called on, as it is now.
Original == IF kind = "fungible" THEN fungible[resLast.container]
            ELSE nonFungible[resLast.container]

\* C12: take_all always succeeds: it returns a container holding exactly what
\* the container held and leaves the container empty.
C12_TakeAll ==
    resLast.op = "take_all" =>
        /\ resLast.result = "Ok"
        /\ Returned = resLast.before
        /\ Original = (IF kind = "fungible" THEN 0 ELSE {})

\* take_all of a fungible container that held something.
C12_Witness ==
    /\ kind = "fungible"
    /\ resLast.op = "take_all"
    /\ resLast.before > 0
    /\ Returned = resLast.before
    /\ Original = 0

\* C13: take_by_amount(n) on a non-fungible container fails with
\* InsufficientBalance exactly when it holds fewer than n ids, and then keeps
\* them all; otherwise it removes and returns the n smallest ids and keeps the
\* others.
C13_NonFungibleTakeByAmount ==
    (kind = "nonfungible" /\ resLast.op = "take_by_amount") =>
        /\ resLast.result \in {"Ok", "InsufficientBalance"}
        /\ (resLast.result = "InsufficientBalance")
              <=> (Cardinality(resLast.before) < resLast.arg)
        /\ resLast.result = "InsufficientBalance" => Original = resLast.before
        /\ resLast.result = "Ok" =>
              /\ Cardinality(Returned) = resLast.arg
              /\ Returned \subseteq resLast.before
              /\ \A x \in Returned : \A y \in resLast.before \ Returned : x < y
              /\ Original = resLast.before \ Returned

\* Some of the ids, not all, were taken: the smallest ones.
C13_Witness ==
    /\ kind = "nonfungible"
    /\ resLast.op = "take_by_amount"
    /\ resLast.result = "Ok"
    /\ resLast.arg >= 1
    /\ Cardinality(resLast.before) > resLast.arg
    /\ Returned = {1}
    /\ Original = resLast.before \ {1}

\* C14: take_by_ids(S) succeeds exactly when every id of S is in the container,
\* and then removes exactly S and returns a container holding S; when an id of S
\* is absent it fails and the container holds the ids it held before the call.
C14_TakeByIds ==
    (kind = "nonfungible" /\ resLast.op = "take_by_ids") =>
        /\ (resLast.result = "Ok") <=> (resLast.arg \subseteq resLast.before)
        /\ resLast.result = "Ok" =>
              /\ Returned = resLast.arg
              /\ Original = resLast.before \ resLast.arg
        /\ resLast.result # "Ok" =>
              /\ resLast.result = "InsufficientBalance"
              /\ Original = resLast.before

(***************************************************************************)
(* Properties of the vault's freeze flags (under SpecVault)                *)
(***************************************************************************)
\* C15: a withdraw, deposit, burn or recall fails with Frozen exactly when the
\* operation's own bit is set, whatever the other three bits are, and a vault
\* that was never frozen has no bit set.
C15_OwnFreezeBit ==
    /\ ~vault_was_frozen => vault_frozen = {}
    /\ vaultLast.op \in {"withdraw", "deposit", "burn", "recall"} =>
          ((vaultLast.result = "Frozen") <=> (vaultLast.flag \in vaultLast.frozen))

\* C16: a transaction that ends with resources left on the worktop or in a
\* bucket never commits successfully; when it ran to its end, its receipt is a
\* commit-failure with DropNonEmptyBucket.
C16_LeftoverNeverCommits ==
    (receipt.kind # "none" /\ (worktop # 0 \/ bucket # 0)) =>
        /\ receipt.kind # "CommitSuccess"
        /\ feeLast.op = "finalize" =>
              receipt = [kind |-> "CommitFailure", error |-> "DropNonEmptyBucket"]

\* The manifest ended with an empty worktop and a bucket still holding XRD.
C16_Witness ==
    /\ feeLast.op = "finalize"
    /\ worktop = 0
    /\ bucket > 0
    /\ receipt = [kind |-> "CommitFailure", error |-> "DropNonEmptyBucket"]

(***************************************************************************)
(* Properties of the substate locks (under SpecLock)                       *)
(***************************************************************************)
LocksOn(held, field) == {l \in held : l.field = field}

\* At most one writable lock on a substate, and none next to another lock.
Exclusive(held) ==
    \A field \in Fields :
        \A l \in LocksOn(held, field) :
            l.mutable => LocksOn(held, field) = {l}

\* C17: across all call frames a substate has at most one writable lock, never
\* together with another lock, while read-only locks may be held together; a
\* request that would break this fails and acquires nothing.
C17_LockExclusivity ==
    /\ Exclusive(locked_handles)
    /\ lockLast.op = "actor_lock_field" =>
          LET mutable == lockLast.flags = MUTABLE
              requested == [handle |-> lockLast.handle, frame |-> lock_depth,
                            field |-> lockLast.field, mutable |-> mutable]
              valid == lockLast.flags \in {0, MUTABLE}
          IN  /\ (valid /\ ~Exclusive(lockLast.before \cup {requested}))
                    => lockLast.result = "AlreadyLocked"
              /\ (valid /\ Exclusive(lockLast.before \cup {requested}))
                    => lockLast.result = "Ok"
              /\ lockLast.result = "Ok" => locked_handles = lockLast.before \cup {requested}
              /\ lockLast.result # "Ok" => locked_handles = lockLast.before

\* Two frames hold read-only locks on the same field and a writable request on
\* it has just been refused.
C17_Witness ==
    /\ lockLast.op = "actor_lock_field"
    /\ lockLast.flags = MUTABLE
    /\ lockLast.result = "AlreadyLocked"
    /\ \E l1 \in locked_handles, l2 \in locked_handles :
          /\ l1.frame # l2.frame
          /\ l1.field = lockLast.field /\ l2.field = lockLast.field
          /\ ~l1.mutable /\ ~l2.mutable

(***************************************************************************)
(* Properties of the substate database (under SpecDb)                      *)
(***************************************************************************)
Get(map, id) == get_substate(map, id[1], id[2], id[3])
Listed(state_changes) == {state_changes[i].id : i \in 1..Len(state_changes)}

\* C18: get_substate(id) returns the bytes of the Set committed last for id, or
\* None if id was never set or a Delete was committed last for it; a commit
\* changes get_substate only for the ids it lists.
C18_GetSubstate ==
    /\ \A id \in SubstateIds :
          Get(substates, id) = IF last_update[id].kind = "Set"
                               THEN Option_Some(last_update[id].value)
                               ELSE Option_None
    /\ \A id \in SubstateIds \ Listed(db_updates) :
          Get(substates, id) = Get(db_before, id)

\* A later commit has overwritten the bytes set for one id while another id,
\* which that commit does not list, keeps the bytes set for it earlier.
C18_Witness ==
    /\ db_count = MaxDbUpdates
    /\ Len(db_updates) = 1
    /\ db_updates[1].change = StateUpdate_Set(<<7>>)
    /\ Get(db_before, db_updates[1].id) = Option_Some(<<>>)
    /\ \E id \in SubstateIds \ Listed(db_updates) : Get(substates, id) = Option_Some(<<7>>)

\* a comes before b in lexicographic order.
KeyBefore(a, b) ==
    \E i \in 1..Len(b) :
        /\ \A j \in 1..(i - 1) : j <= Len(a) /\ a[j] = b[j]
        /\ i > Len(a) \/ a[i] < b[i]

\* The substates of a node and module that the commits have left set.
StoredUnder(node_id, module_id) ==
    {<<id[3], last_update[id].value>> :
        id \in {x \in SubstateIds : /\ x[1] = node_id /\ x[2] = module_id
                                    /\ last_update[x].kind = "Set"}}

\* C19: list_substates(node, module) yields exactly the substates stored under
\* that node and module, none of another node or module, each once, in ascending
\* order of substate key and with the value committed last.
C19_ListSubstates ==
    \A node_id \in NodeIds, module_id \in ModuleIds :
        LET listed == list_substates(substates, node_id, module_id) IN
        /\ {listed[i] : i \in 1..Len(listed)} = StoredUnder(node_id, module_id)
        /\ Len(listed) = Cardinality(StoredUnder(node_id, module_id))
        /\ \A i \in 1..Len(listed), j \in 1..Len(listed) :
              i < j => KeyBefore(listed[i][1], listed[j][1])

\* A module holds two substates, listed with the two-byte key <<0, 255>> before
\* the one-byte key <<255>>, while another module or node holds a substate too.
C19_Witness ==
    \E node_id \in NodeIds, module_id \in ModuleIds :
        /\ Len(list_substates(substates, node_id, module_id)) = 2
        /\ list_substates(substates, node_id, module_id)[1][1] = <<0, 255>>
        /\ \E other \in SubstateIds :
              /\ <<other[1], other[2]>> # <<node_id, module_id>>
              /\ Get(substates, other) # Option_None

C26_DirectAccessOnlyRecall ==
    (/\ callLast.op = "method_auth"
     /\ callLast.node_id = "Object"
     /\ callLast.type_info = <<"RESOURCE_MANAGER_PACKAGE", "VAULT_BLUEPRINT">>) =>
        /\ callLast.visibility = "DirectAccess" =>
              IF /\ callLast.module_id = "ObjectState"
                 /\ callLast.ident \in {"VAULT_RECALL_IDENT",
                                        "VAULT_RECALL_NON_FUNGIBLES_IDENT"}
              THEN callLast.result = AuthOk(GroupRule("resource", "AccessRules1", "recall"))
              ELSE callLast.result = AuthErr("VisibilityError")
        /\ callLast.visibility = "Normal" =>
              callLast.result = AuthOk(MethodRule("resource", "AccessRules1",
                                                  callLast.module_id, callLast.ident))

(***************************************************************************)
(* Properties of the events (under SpecEvents)                             *)
(***************************************************************************)
\* C27: the application events of a committed receipt are exactly the events
\* emitted during the transaction, none dropped or duplicated, in the order of
\* the emissions.
C27_ReceiptHoldsEmittedEvents ==
    (event_receipt # NoReceipt /\ event_receipt.outcome = "CommitSuccess") =>
        event_receipt.application_events = emit_log

\* A commit after lock-fee, recall (which emits withdraw, then recall) and
\* deposit.
C27_Witness ==
    /\ event_receipt # NoReceipt
    /\ event_receipt.outcome = "CommitSuccess"
    /\ Len(emit_log) = MaxEvents
    /\ emit_log[1].name = LockFeeEvent
    /\ emit_log[2].name = WithdrawResourceEvent
    /\ emit_log[3].name = RecallResourceEvent
    /\ emit_log[4].name = DepositResourceEvent

\* C28: emitting an event whose name the emitting blueprint's schema does not
\* declare fails the transaction with EventError::SchemaNotFoundError, and the
\* event is not recorded.
C28_UndeclaredEventFails ==
    (/\ eventLast.op = "emit_event"
     /\ String_from_utf8(eventLast.event_name).kind = "Ok"
     /\ eventLast.event_name \notin event_schema(eventLast.blueprint)) =>
        /\ eventLast.error = [kind |-> "EventError::SchemaNotFoundError"]
        /\ event_error = eventLast.error
        /\ event_store = eventLast.before
        /\ event_receipt # NoReceipt =>
              /\ event_receipt.outcome = "CommitFailure"
              /\ event_receipt.error = [kind |-> "EventError::SchemaNotFoundError"]
              /\ event_receipt.application_events = <<>>

C28_Witness ==
    /\ eventLast.op = "emit_event"
    /\ eventLast.event_name = UnregisteredEvent
    /\ eventLast.before # <<>>
    /\ event_receipt # NoReceipt
    /\ event_receipt.outcome = "CommitFailure"

(***************************************************************************)
(* Properties of the codec (under SpecCodec)                               *)
(***************************************************************************)
\* C29: decoding the encoding of a value gives the value back: for every integer
\* of every width decode(encode(x)) = x, for every manifest value that can be
\* encoded manifest_decode(manifest_encode(v)) = v, and
\* from_manifest_value(to_manifest_value(v)) = v.
C29_RoundTrip ==
    /\ callLast.op \in {"integer_round_trip", "manifest_value_round_trip"} =>
          /\ callLast.decoded.kind = "Ok"
          /\ callLast.decoded.value = callLast.value
    /\ (callLast.op = "manifest_round_trip" /\ callLast.encoded.kind = "Ok") =>
          /\ callLast.decoded.kind = "Ok"
          /\ callLast.decoded.value = callLast.value

\* The least i128 has made the round trip.
C29_Witness ==
    /\ callLast.op = "integer_round_trip"
    /\ callLast.type = "i128"
    /\ callLast.value.neg
    /\ IsMinMagnitude(callLast.value.mag)
    /\ callLast.decoded.kind = "Ok"

(***************************************************************************)
(* Properties of NonFungibleId (under SpecNonFungibleId)                   *)
(***************************************************************************)
\* C30: for every NonFungibleId built by one of the constructors, parsing its
\* hexadecimal text form with from_str succeeds and gives an id equal to the
\* original, id type included.
C30_TextFormRoundTrip ==
    callLast.op = "from_str" =>
        /\ callLast.parsed.kind = "Ok"
        /\ callLast.parsed.value = callLast.id

(***************************************************************************)
(* Properties of the fee locks (under SpecTrack)                           *)
(***************************************************************************)
\* C31: a fee lock on a vault is accepted only if the transaction has neither
\* created nor modified the vault's substate: on a vault created in the
\* transaction it fails with LockUnmodifiedBaseOnNewSubstate, after an update of
\* the vault with LockUnmodifiedBaseOnOnUpdatedSubstate, and the transaction
\* does not commit successfully; a transaction that only reads vaults, before or
\* after its fee lock, commits successfully.
C31_FeeLockNeedsUnmodifiedBase ==
    /\ trackLast.op = "lock_fee" =>
          /\ (trackLast.result = TrackOk) <=> (trackLast.before \in {"base", "loaded"})
          /\ trackLast.before = "new" =>
                trackLast.result = TrackError("LockUnmodifiedBaseOnNewSubstate")
          /\ trackLast.before = "updated" =>
                trackLast.result = TrackError("LockUnmodifiedBaseOnOnUpdatedSubstate")
          /\ (trackLast.result # TrackOk /\ tracked.receipt # NoReceipt) =>
                /\ tracked.receipt.kind # "CommitSuccess"
                /\ ~tracked.loan_repaid =>
                      tracked.receipt = [kind |-> "Reject",
                                         error |-> [kind |-> "ErrorBeforeFeeLoanRepaid",
                                                    error |-> trackLast.result.error]]
    /\ (/\ tracked.receipt # NoReceipt
        /\ tracked.loan_repaid
        /\ \A vault \in TrackedVaults :
              tracked.substates[vault] \in {"absent", "base", "loaded"}) =>
          tracked.receipt.kind = "CommitSuccess"

\* A fee lock after an update of the same vault was refused and the
\* transaction was rejected.
C31_Witness ==
    /\ trackLast.op = "lock_fee"
    /\ trackLast.before = "updated"
    /\ tracked.receipt # NoReceipt
    /\ tracked.receipt.kind = "Reject"

(***************************************************************************)
(* Properties of ResourceDef (under SpecSupply and SpecFlags)              *)
(***************************************************************************)
\* C32: after any sequence of mint and burn calls total_supply is the supply at
\* creation plus the minted quantities minus the burned ones; a mint or burn
\* whose amount kind does not match the resource type fails with
\* ResourceTypeNotMatching and leaves total_supply unchanged.
C32_SupplyIsCreatedPlusMintedMinusBurned ==
    /\ resource_def.total_supply = created_supply + minted - burned
    /\ rdefLast.op \in {"mint", "burn"} =>
          /\ (rdefLast.arg.kind # rdefLast.before.resource_type) <=>
                (rdefLast.result = "ResourceTypeNotMatching")
          /\ rdefLast.result = "ResourceTypeNotMatching" =>
                resource_def.total_supply = rdefLast.before.total_supply

\* A quantity was minted and then burned, and the supply is the one at creation.
C32_Witness ==
    /\ rdefLast.op = "burn"
    /\ rdefLast.result = "Ok"
    /\ minted = MaxQuantity
    /\ burned = MaxQuantity
    /\ resource_def.total_supply = created_supply

\* C40: after any sequence of mint and burn calls on a ResourceDef created with
\* a non-negative total supply, total_supply is never negative: a burn of more
\* than the current total supply does not go through.
C40_SupplyNeverNegative ==
    /\ resource_def.total_supply >= 0
    /\ (/\ rdefLast.op = "burn"
        /\ as_quantity(rdefLast.arg) > rdefLast.before.total_supply) =>
          rdefLast.result # "Ok"

\* C36: over update_flags and update_mutable_flags calls, a flag bit whose
\* mutable_flags bit is 0 never changes and a mutable_flags bit that is 0 never
\* becomes 1; a refused update (InvalidFlagUpdate, InvalidResourceFlags) leaves
\* flags and mutable_flags unchanged.
C36_LockedFlagsStay ==
    rdefLast.op \in {"update_flags", "update_mutable_flags"} =>
        /\ \A bit \in FlagBits :
              bit \notin rdefLast.before.mutable_flags =>
                 /\ (bit \in resource_def.flags) <=> (bit \in rdefLast.before.flags)
                 /\ bit \notin resource_def.mutable_flags
        /\ rdefLast.result # "Ok" =>
              /\ rdefLast.result \in {"InvalidFlagUpdate", "InvalidResourceFlags"}
              /\ resource_def = rdefLast.before

\* A flag was made immutable and an update of it was then refused.
C36_Witness ==
    /\ rdefLast.op = "update_flags"
    /\ rdefLast.result = "InvalidFlagUpdate"
    /\ rdefLast.calls >= 2
    /\ \E bit \in ALL_FLAGS :
          /\ bit \notin resource_def.mutable_flags
          /\ (bit \in rdefLast.arg) # (bit \in resource_def.flags)

(***************************************************************************)
(* Properties of the runtime's buffers (under SpecBuffers)                 *)
(***************************************************************************)
\* C35: in one ScryptoRuntime every buffer id returned by allocate_buffer differs
\* from every id returned before, consumed or not; consume_buffer(id) succeeds
\* exactly once per allocated id and returns the bytes given at allocation; on an
\* unknown or already consumed id it fails with BufferNotFound(id) and changes no
\* buffer.
C35_BufferIdsAreFresh ==
    /\ \A i \in 1..Len(allocated), j \in 1..Len(allocated) :
          i # j => allocated[i].id # allocated[j].id
    /\ \A i \in 1..Len(allocated) : allocated[i].taken <= 1
    /\ bufLast.op = "consume_buffer" =>
          LET known == {i \in 1..Len(bufLast.allocated_before) :
                            /\ bufLast.allocated_before[i].id = bufLast.arg
                            /\ bufLast.allocated_before[i].taken = 0}
          IN  /\ (bufLast.result = "Ok") <=> (known # {})
              /\ bufLast.result = "Ok" =>
                    /\ \A i \in known : bufLast.bytes = bufLast.allocated_before[i].bytes
                    /\ bufLast.arg \notin DOMAIN buffers
              /\ bufLast.result # "Ok" =>
                    /\ bufLast.error = BufferNotFound(bufLast.arg)
                    /\ buffers = bufLast.before

\* A buffer that had been consumed is asked for again after a later buffer was
\* allocated: the call fails, and the later buffer has a new id and is intact.
C35_Witness ==
    /\ bufLast.op = "consume_buffer" /\ bufLast.result = "Err"
    /\ Len(allocated) >= 2
    /\ allocated[1].id = bufLast.arg /\ allocated[1].taken = 1
    /\ allocated[2].taken = 0 /\ allocated[2].id \in DOMAIN buffers
    /\ buffers[allocated[2].id] = allocated[2].bytes
    /\ allocated[2].bytes # <<>>

(***************************************************************************)
(* Properties of the fungible amounts (under SpecResource)                 *)
(***************************************************************************)
\* C39: starting from LiquidFungibleResource containers of non-negative amount,
\* after any sequence of put, take_by_amount and take_all with any Decimal
\* arguments, the amount of every container, those returned by a take included,
\* is non-negative.
C39_AmountsNeverNegative ==
    kind = "fungible" => \A i \in 1..Len(fungible) : fungible[i] >= 0

(***************************************************************************)
(* Properties of the typed traverser (under SpecTraverser)                 *)
(***************************************************************************)
\* C37: the typed traverser pairs each ContainerEnd with the most recent
\* unmatched ContainerStart and reports it with that start's type index; the
\* container stack is never popped or read while empty; its depth equals the
\* nesting depth of the untyped traverser, also after a type-mismatch Error.
C37_StackFollowsNesting ==
    /\ traverser.status # "panicked"
    /\ Len(traverser.container_stack) = Len(traverser.ancestor_path)
    /\ (travLast.op = "ContainerEnd" /\ travLast.event = "ContainerEnd") =>
          travLast.type_index = travLast.path_before[Len(travLast.path_before)].started

\* The value kind is the one a value of the type at `type_index` has.
KindAgrees(kind_of_value, type_index) ==
    Schema[type_index].kind \in {"Any", kind_of_value}

\* The header agrees with the schema type: the type is Any, or a tuple with as
\* many fields as the header's length, or an enum declaring the header's variant
\* with as many fields, or an array whose element type has the header's element
\* value kind, or a map whose key and value types have the header's kinds.
HeaderAgrees(type_index, header) ==
    LET type_kind == Schema[type_index] IN
    \/ type_kind.kind = "Any"
    \/ /\ header.value_kind = "Tuple" /\ type_kind.kind = "Tuple"
       /\ Len(type_kind.field_types) = header.length
    \/ /\ header.value_kind = "Enum" /\ type_kind.kind = "Enum"
       /\ header.variant \in DOMAIN type_kind.variants
       /\ Len(type_kind.variants[header.variant]) = header.length
    \/ /\ header.value_kind = "Array" /\ type_kind.kind = "Array"
       /\ KindAgrees(header.element_value_kind, type_kind.element_type)
    \/ /\ header.value_kind = "Map" /\ type_kind.kind = "Map"
       /\ KindAgrees(header.key_value_kind, type_kind.key_type)
       /\ KindAgrees(header.value_value_kind, type_kind.value_type)

TypeMismatchErrors ==
    {"MismatchingType", "MismatchingTupleLength", "MismatchingEnumVariantLength",
     "UnknownEnumVariant", "MismatchingChildElementType", "MismatchingChildKeyType",
     "MismatchingChildValueType"}

\* C38: for a container start the typed traverser yields a typed ContainerStart
\* only if the header agrees with the schema type (Any; a tuple, or a declared
\* enum variant, with the header's number of fields; an array or a map whose
\* element kinds match); otherwise it yields an Error event naming the mismatch
\* and pushes nothing on the container stack.
C38_StartOnlyIfHeaderAgrees ==
    (travLast.op = "ContainerStart" /\ travLast.event # "panic") =>
        LET agrees == HeaderAgrees(travLast.type_index, travLast.header) IN
        /\ travLast.path_before = <<>> => travLast.type_index = traverser.root_type_index
        /\ travLast.event = IF agrees THEN "ContainerStart" ELSE "Error"
        /\ agrees =>
              /\ Len(traverser.container_stack) = Len(travLast.before) + 1
              /\ SubSeq(traverser.container_stack, 1, Len(travLast.before)) = travLast.before
              /\ traverser.container_stack[Len(traverser.container_stack)].self_type
                    = travLast.type_index
        /\ ~agrees =>
              /\ travLast.error.kind \in TypeMismatchErrors
              /\ traverser.container_stack = travLast.before

\* An array of bytes met a type whose elements are tuples: the event is an
\* Error naming the element type, below a container that had started.
C38_Witness ==
    /\ travLast.op = "ContainerStart" /\ travLast.event = "Error"
    /\ travLast.header.value_kind = "Array"
    /\ travLast.error.kind = "MismatchingChildElementType"
    /\ Len(travLast.before) >= 1
    /\ traverser.container_stack = travLast.before

(***************************************************************************)
(* Properties of the auth module's locks (under SpecResolve)               *)
(***************************************************************************)
\* C33: before_push_frame leaves the set of held substate locks unchanged: every
\* lock handle acquired while the callee's authorization is resolved has been
\* dropped by the time before_push_frame returns, with Ok or with an error.
C33_ResolutionHoldsNoLock ==
    resolveLast.op = "before_push_frame" => held_locks = resolveLast.before

====
